---- MODULE Spec2Model ----
(***************************************************************************)
(* Model of the Telegram <-> Ollama relay bot: the intake loop of main.go, *)
(* the access guard, rate limiter and dispatcher of the TelegramBot type   *)
(* (ollama.go), and SplitMessage (utils.go).                               *)
(*                                                                         *)
(* A Go string is the sequence of its bytes (0..255), so len(text) of the  *)
(* code is Len(text) and text[i-1] of the code is text[i].  A Go pointer   *)
(* that may be nil is a sequence of length 0 (nil) or 1 (the value pointed *)
(* to).  Times are whole seconds.                                          *)
(***************************************************************************)
EXTENDS Integers, Sequences, FiniteSets, TLC

VARIABLES
  \* ---- TelegramBot fields ----
  LastUpdate,     \* bot.LastUpdate: the watermark
  AllowedUsers,   \* bot.AllowedUsers: map[int64]bool, a function on its key set
  rateLimiter,    \* bot.rateLimiter: map[int64][]time.Time (missing key = <<>>)
  maxRequests,    \* bot.maxRequests
  rateWindow,     \* bot.rateWindow (seconds)
  maxPromptLen,   \* bot.maxPromptLen
  mu,             \* bot.mu: 0 if unlocked, else the caller holding it
  \* ---- environment ----
  now,            \* the reading of time.Now() (seconds)
  ctxDone,        \* ctx.Done() is closed (cancel() was called)
  ended,          \* main has returned: the process, with its goroutine, is gone
  \* ---- the intake goroutine of main ----
  pc,             \* position of the goroutine
  updates,        \* the batch returned by the last successful GetUpdates
  idx,            \* index of the update the range loop is at
  offset,         \* offset parameter of the most recent getUpdates request
  fetch,          \* how the most recent GetUpdates call stands, and since when
  trail,          \* the HandleMessage calls made for the current batch, in order
  \* ---- observations ----
  recvMax,        \* highest update_id in any batch received so far (0 if none)
  lastMsg,        \* argument of the most recent HandleMessage call (<<>> if none)
  sent,           \* SendMessage calls of the most recent HandleMessage, in order
  logs,           \* log lines of the most recent HandleMessage, in order
  prompts,        \* SendPrompt calls of the most recent HandleMessage, in order
  reply,          \* what SendPrompt returns if called in the most recent HandleMessage
  allowed,        \* what isUserAllowed returned in the most recent HandleMessage (<<>>: not called)
  todo,           \* what the HandleMessage call under way has still to do, in order (<<>>: no call under way)
  entry,          \* rateLimiter and the clock as the most recent HandleMessage call found them
  calls,          \* the direct calls of checkRateLimit (CallCheckRateLimit), in order
  procs,          \* concurrent callers of checkRateLimit: position and locals of each
  credited,       \* per sender identity, its first freeform messages: when and how the limiter answered
  earlier,        \* update ids of the batches received before the current one (kept by EventsReturn)
  conforms,       \* every batch so far held only update ids >= the offset asked (kept by EventsReturn)
  \* ---- one run of SplitMessage, statement by statement ----
  smText,         \* parameter text
  smMaxLen,       \* parameter maxLen (as passed)
  smLimit,        \* local maxLen after the correction of line 107
  smCurrent,      \* local current
  smParts,        \* local parts
  smCuts,         \* per loop iteration: how the cut was found and what was skipped
  smPc            \* position inside SplitMessage

botVars   == <<LastUpdate, AllowedUsers, rateLimiter, maxRequests, rateWindow, maxPromptLen, mu>>
envVars   == <<now, ctxDone, ended>>
loopVars  == <<pc, updates, idx, offset, recvMax, fetch, trail>>
obsVars   == <<lastMsg, sent, logs, prompts, reply, allowed, todo, entry>>
rateObs   == <<calls, credited, procs, earlier, conforms>>
splitVars == <<smText, smMaxLen, smLimit, smCurrent, smParts, smCuts, smPc>>
vars      == <<botVars, envVars, loopVars, obsVars, rateObs, splitVars>>

(***************************************************************************)
(* Characters and texts                                                    *)
(***************************************************************************)
\* '\n' and ' '
NL == 10
SP == 32

\* a space or newline, in the words of the claims
IsBlank(c) == c \in {SP, NL}

Rep(c, n) == [i \in 1..n |-> c]

Max(a, b) == IF a >= b THEN a ELSE b
Min(a, b) == IF a <= b THEN a ELSE b

RECURSIVE SeqsUpTo(_, _)
SeqsUpTo(S, n) ==
  IF n = 0 THEN {<<>>}
  ELSE LET shorter == SeqsUpTo(S, n - 1)
       IN shorter \cup {Append(s, c) : s \in {t \in shorter : Len(t) = n - 1}, c \in S}

\* Go's s[lo:hi] (0-based, hi exclusive) for 0 <= lo <= hi <= len(s)
Slice(s, lo, hi) == SubSeq(s, lo + 1, hi)

(***************************************************************************)
(* SplitMessage (utils.go:102-154)                                         *)
(***************************************************************************)
DefaultMaxLen == 4000
NewlineWindow == 100
SpaceWindow   == 50

\* if len(text) <= maxLen { return []string{text} }
FitsAtOnceNever(text, maxLen) == FALSE
FitsAtOnce(text, maxLen) == Len(text) <= maxLen

\* if maxLen <= 0 { maxLen = 4000 }
EffectiveMaxLenUnguarded(maxLen) == maxLen
EffectiveMaxLen(maxLen) == IF maxLen <= 0 THEN DefaultMaxLen ELSE maxLen

\* for i := maxLen; i > 0 && i > maxLen-window; i-- { if current[i-1] == ch { splitPos = i; break } }
\* started at i with splitPos = maxLen: the value of splitPos after the loop
\* (the loop visits i, i-1, ... while the condition holds and stops at the first,
\* that is the largest, position whose character is ch)
ScanBack(current, ch, i, maxLen, window) ==
  LET visited == Max(1, maxLen - window + 1)..i
      met     == {j \in visited : current[j] = ch}
  IN IF met = {} THEN maxLen
     ELSE CHOOSE j \in met : \A k \in met : k <= j

\* splitPos after the newline search
NewlinePos(current, maxLen) == ScanBack(current, NL, maxLen, maxLen, NewlineWindow)

\* splitPos after the space search, which runs only if splitPos == maxLen
SpacePos(current, maxLen, splitPos) ==
  IF splitPos = maxLen THEN ScanBack(current, SP, maxLen, maxLen, SpaceWindow)
  ELSE splitPos

\* splitPos at line 140
SplitPosOffByOne(current, maxLen) == SpacePos(current, maxLen, NewlinePos(current, maxLen)) + 1
SplitPos(current, maxLen) == SpacePos(current, maxLen, NewlinePos(current, maxLen))

\* current[0] == ' ' || current[0] == '\n'
IsSkippedAny(c) == TRUE
IsSkipped(c) == c = SP \/ c = NL

\* for len(current) > 0 && (current[0] == ' ' || current[0] == '\n') { current = current[1:] }
\* the number n of characters the loop removes from current[k:]: the first n for
\* which the loop condition is false
SkipCount(current, k) ==
  CHOOSE n \in 0..(Len(current) - k) :
    /\ ~(Len(current) - k - n > 0 /\ IsSkipped(current[k + n + 1]))
    /\ \A j \in 1..n : IsSkipped(current[k + j])

\* does the search loop for ch over i = maxLen, maxLen-1, ... (i > 0, i > maxLen-window)
\* meet ch?  (an observation: the code keeps only splitPos)
Found(current, ch, maxLen, window) ==
  \E i \in 1..maxLen : i > maxLen - window /\ current[i] = ch

\* one iteration of the cutting loop (lines 115-146): the part appended, the new
\* current, and, as observations, splitPos, what the two searches met and the
\* characters the skip loop removed
CutStep(current, maxLen) ==
  LET splitPos == SplitPos(current, maxLen)
      rest     == Slice(current, splitPos, Len(current))
      skip     == SkipCount(rest, 0)
  IN [part     |-> Slice(current, 0, splitPos),
      rest     |-> Slice(rest, skip, Len(rest)),
      splitPos |-> splitPos,
      nlFound  |-> Found(current, NL, maxLen, NewlineWindow),
      spFound  |-> Found(current, SP, maxLen, SpaceWindow),
      skipped  |-> Slice(rest, 0, skip)]

\* lines 114-153, as a function of the loop's state
RECURSIVE SplitLoop(_, _, _)
SplitLoop(current, maxLen, parts) ==
  IF Len(current) > maxLen
  THEN LET c == CutStep(current, maxLen)
       IN SplitLoop(c.rest, maxLen, Append(parts, c.part))
  ELSE IF Len(current) > 0 THEN Append(parts, current) ELSE parts

SplitMessage(text, maxLen) ==
  IF FitsAtOnce(text, maxLen) THEN <<text>>
  ELSE SplitLoop(text, EffectiveMaxLen(maxLen), <<>>)

(***************************************************************************)
(* SplitMessage statement by statement (utils.go:102-154)                  *)
(***************************************************************************)
\* lines 103-112: the early return, the correction of maxLen, the locals
SplitEnter ==
  /\ smPc = "entry"
  /\ IF FitsAtOnce(smText, smMaxLen)
     THEN /\ smParts' = <<smText>>
          /\ smPc' = "done"
          /\ UNCHANGED <<smLimit, smCurrent>>
     ELSE /\ smLimit' = EffectiveMaxLen(smMaxLen)
          /\ smCurrent' = smText
          /\ smParts' = <<>>
          /\ smPc' = "loop"
  /\ UNCHANGED <<smText, smMaxLen, smCuts>>
  /\ UNCHANGED <<botVars, envVars, loopVars, obsVars, rateObs>>

\* lines 114-147: one iteration of "for len(current) > maxLen".  current[:splitPos]
\* with splitPos outside 0..len(current) is a run-time panic of Go.
SplitIterate ==
  /\ smPc = "loop"
  /\ Len(smCurrent) > smLimit
  /\ IF SplitPos(smCurrent, smLimit) \in 0..Len(smCurrent)
     THEN LET c == CutStep(smCurrent, smLimit)
          IN /\ smParts' = Append(smParts, c.part)
             /\ smCurrent' = c.rest
             /\ smCuts' = Append(smCuts, [splitPos |-> c.splitPos, nlFound |-> c.nlFound,
                                          spFound |-> c.spFound, skipped |-> c.skipped])
             /\ smPc' = "loop"
     ELSE /\ smPc' = "panic"
          /\ UNCHANGED <<smParts, smCurrent, smCuts>>
  /\ UNCHANGED <<smText, smMaxLen, smLimit>>
  /\ UNCHANGED <<botVars, envVars, loopVars, obsVars, rateObs>>

\* lines 149-153: the loop condition is false; the remainder, if any, is the last part
SplitReturn ==
  /\ smPc = "loop"
  /\ ~(Len(smCurrent) > smLimit)
  /\ smParts' = IF Len(smCurrent) > 0 THEN Append(smParts, smCurrent) ELSE smParts
  /\ smPc' = "done"
  /\ UNCHANGED <<smText, smMaxLen, smLimit, smCurrent, smCuts>>
  /\ UNCHANGED <<botVars, envVars, loopVars, obsVars, rateObs>>

NextSplit == SplitEnter \/ SplitIterate \/ SplitReturn

(***************************************************************************)
(* The string literals of ollama.go, as UTF-8 bytes                        *)
(***************************************************************************)
\* the literal of ollama.go:420 (6 bytes)
StartCommand ==
  <<47, 115, 116, 97, 114, 116>>

\* the literal of ollama.go:428 (5 bytes)
HelpCommand ==
  <<47, 104, 101, 108, 112>>

\* the literal of ollama.go:421-423 (263 bytes)
StartText ==
  <<208, 159, 209, 128, 208, 184, 208, 178, 208, 181, 209, 130, 33, 32, 208, 175, 32, 208,
  177, 208, 190, 209, 130, 32, 208, 180, 208, 187, 209, 143, 32, 209, 128, 208, 176, 208,
  177, 208, 190, 209, 130, 209, 139, 32, 209, 129, 32, 79, 108, 108, 97, 109, 97, 32, 76,
  76, 77, 46, 10, 10, 208, 159, 209, 128, 208, 190, 209, 129, 209, 130, 208, 190, 32, 208,
  190, 209, 130, 208, 191, 209, 128, 208, 176, 208, 178, 209, 140, 32, 208, 188, 208, 189,
  208, 181, 32, 209, 129, 208, 190, 208, 190, 208, 177, 209, 137, 208, 181, 208, 189, 208,
  184, 208, 181, 44, 32, 208, 184, 32, 209, 143, 32, 208, 191, 208, 181, 209, 128, 208,
  181, 208, 180, 208, 176, 208, 188, 32, 208, 181, 208, 179, 208, 190, 32, 208, 188, 208,
  190, 208, 180, 208, 181, 208, 187, 208, 184, 32, 208, 180, 208, 187, 209, 143, 32, 208,
  179, 208, 181, 208, 189, 208, 181, 209, 128, 208, 176, 209, 134, 208, 184, 208, 184, 32,
  208, 190, 209, 130, 208, 178, 208, 181, 209, 130, 208, 176, 46, 10, 10, 208, 152, 209,
  129, 208, 191, 208, 190, 208, 187, 209, 140, 208, 183, 209, 131, 208, 185, 32, 47, 104,
  101, 108, 112, 32, 208, 180, 208, 187, 209, 143, 32, 208, 191, 208, 190, 208, 187, 209,
  131, 209, 135, 208, 181, 208, 189, 208, 184, 209, 143, 32, 209, 129, 208, 191, 209, 128,
  208, 176, 208, 178, 208, 186, 208, 184, 46>>

\* the literal of ollama.go:429-432 (248 bytes)
HelpText ==
  <<208, 148, 208, 190, 209, 129, 209, 130, 209, 131, 208, 191, 208, 189, 209, 139, 208,
  181, 32, 208, 186, 208, 190, 208, 188, 208, 176, 208, 189, 208, 180, 209, 139, 58, 10,
  10, 47, 115, 116, 97, 114, 116, 32, 45, 32, 208, 191, 209, 128, 208, 184, 208, 178, 208,
  181, 209, 130, 209, 129, 209, 130, 208, 178, 208, 181, 208, 189, 208, 189, 208, 190,
  208, 181, 32, 209, 129, 208, 190, 208, 190, 208, 177, 209, 137, 208, 181, 208, 189, 208,
  184, 208, 181, 10, 47, 104, 101, 108, 112, 32, 45, 32, 209, 141, 209, 130, 208, 176, 32,
  209, 129, 208, 191, 209, 128, 208, 176, 208, 178, 208, 186, 208, 176, 10, 10, 208, 155,
  209, 142, 208, 177, 208, 190, 208, 181, 32, 208, 180, 209, 128, 209, 131, 208, 179, 208,
  190, 208, 181, 32, 209, 129, 208, 190, 208, 190, 208, 177, 209, 137, 208, 181, 208, 189,
  208, 184, 208, 181, 32, 208, 177, 209, 131, 208, 180, 208, 181, 209, 130, 32, 208, 190,
  209, 130, 208, 191, 209, 128, 208, 176, 208, 178, 208, 187, 208, 181, 208, 189, 208,
  190, 32, 208, 178, 32, 79, 108, 108, 97, 109, 97, 32, 208, 180, 208, 187, 209, 143, 32,
  208, 179, 208, 181, 208, 189, 208, 181, 209, 128, 208, 176, 209, 134, 208, 184, 208,
  184, 32, 208, 190, 209, 130, 208, 178, 208, 181, 209, 130, 208, 176, 46>>

\* the literal of ollama.go:447 (100 bytes)
RateLimitedText ==
  <<208, 161, 208, 187, 208, 184, 209, 136, 208, 186, 208, 190, 208, 188, 32, 208, 188,
  208, 189, 208, 190, 208, 179, 208, 190, 32, 208, 183, 208, 176, 208, 191, 209, 128, 208,
  190, 209, 129, 208, 190, 208, 178, 46, 32, 208, 159, 208, 190, 208, 182, 208, 176, 208,
  187, 209, 131, 208, 185, 209, 129, 209, 130, 208, 176, 44, 32, 208, 191, 208, 190, 208,
  180, 208, 190, 208, 182, 208, 180, 208, 184, 209, 130, 208, 181, 32, 208, 189, 208, 181,
  208, 188, 208, 189, 208, 190, 208, 179, 208, 190, 46>>

\* the literal of ollama.go:453, before %d (87 bytes)
TooLongPrefix ==
  <<208, 161, 208, 190, 208, 190, 208, 177, 209, 137, 208, 181, 208, 189, 208, 184, 208,
  181, 32, 209, 129, 208, 187, 208, 184, 209, 136, 208, 186, 208, 190, 208, 188, 32, 208,
  180, 208, 187, 208, 184, 208, 189, 208, 189, 208, 190, 208, 181, 46, 32, 208, 156, 208,
  176, 208, 186, 209, 129, 208, 184, 208, 188, 208, 176, 208, 187, 209, 140, 208, 189,
  208, 176, 209, 143, 32, 208, 180, 208, 187, 208, 184, 208, 189, 208, 176, 58, 32>>

\* the literal of ollama.go:453, after %d (18 bytes)
TooLongSuffix ==
  <<32, 209, 129, 208, 184, 208, 188, 208, 178, 208, 190, 208, 187, 208, 190, 208, 178,
  46>>

\* the literal of ollama.go:458 (38 bytes)
AckText ==
  <<208, 158, 208, 177, 209, 128, 208, 176, 208, 177, 208, 176, 209, 130, 209, 139, 208,
  178, 208, 176, 209, 142, 32, 208, 183, 208, 176, 208, 191, 209, 128, 208, 190, 209, 129,
  46, 46, 46>>

\* the literal of ollama.go:465 (106 bytes)
GenericFailureText ==
  <<208, 159, 209, 128, 208, 190, 208, 184, 208, 183, 208, 190, 209, 136, 208, 187, 208,
  176, 32, 208, 190, 209, 136, 208, 184, 208, 177, 208, 186, 208, 176, 32, 208, 191, 209,
  128, 208, 184, 32, 208, 190, 208, 177, 209, 128, 208, 176, 208, 177, 208, 190, 209, 130,
  208, 186, 208, 181, 32, 208, 183, 208, 176, 208, 191, 209, 128, 208, 190, 209, 129, 208,
  176, 46, 32, 208, 159, 208, 190, 208, 191, 209, 128, 208, 190, 208, 177, 209, 131, 208,
  185, 209, 130, 208, 181, 32, 208, 191, 208, 190, 208, 183, 208, 182, 208, 181, 46>>

\* the literal of ollama.go:478 (44 bytes)
ContinuationMarker ==
  <<10, 10, 91, 208, 159, 209, 128, 208, 190, 208, 180, 208, 190, 208, 187, 208, 182, 208,
  181, 208, 189, 208, 184, 208, 181, 32, 209, 129, 208, 187, 208, 181, 208, 180, 209, 131,
  208, 181, 209, 130, 46, 46, 46, 93>>

\* the literal of ollama.go:708, before %s (70 bytes)
LeakPrefix ==
  <<208, 159, 209, 128, 208, 190, 208, 184, 208, 183, 208, 190, 209, 136, 208, 187, 208,
  176, 32, 208, 190, 209, 136, 208, 184, 208, 177, 208, 186, 208, 176, 32, 208, 191, 209,
  128, 208, 184, 32, 208, 190, 208, 177, 209, 128, 208, 176, 209, 137, 208, 181, 208, 189,
  208, 184, 208, 184, 32, 208, 186, 32, 79, 108, 108, 97, 109, 97, 58, 10, 10>>

(***************************************************************************)
(* Access guard and rate limiter (ollama.go:247-283)                       *)
(***************************************************************************)
\* the int64 identities the model uses (users 5 and 6, group chat 7)
IDs == {5, 6, 7}

\* a read of a map[int64]bool: the zero value false for a missing key
MapGet(m, k) == IF k \in DOMAIN m THEN m[k] ELSE FALSE

\* ollama.go:249-257
isUserAllowedByChat(message) ==
  IF Cardinality(DOMAIN AllowedUsers) = 0 THEN TRUE
  ELSE MapGet(AllowedUsers, message.Chat[1].ID)
isUserAllowed(message) ==
  IF Cardinality(DOMAIN AllowedUsers) = 0 THEN TRUE
  ELSE IF message.From # <<>> THEN MapGet(AllowedUsers, message.From[1].ID)
  ELSE MapGet(AllowedUsers, message.Chat[1].ID)

\* t.After(windowStart), ollama.go:271
AfterOrEqual(t, u) == t >= u
After(t, u) == t > u

\* ollama.go:261-283 at clock reading now: the value returned and the new map
\* (variants: one records a rejected call as well, one admits every call, as the
\* first version of handleTextMessage, ollama.go:690, in effect does, one stores
\* the list unfiltered)
checkRateLimitCountingRejected(userID) ==
  LET windowStart == now - rateWindow
      recent      == SelectSeq(rateLimiter[userID], LAMBDA t : After(t, windowStart))
  IN [ok |-> Len(recent) < maxRequests,
      rateLimiter |-> [rateLimiter EXCEPT ![userID] = Append(recent, now)]]

checkRateLimitAlways(userID) ==
  [ok |-> TRUE, rateLimiter |-> [rateLimiter EXCEPT ![userID] = Append(@, now)]]

checkRateLimitUnfiltered(userID) ==
  LET windowStart == now - rateWindow
      recent      == SelectSeq(rateLimiter[userID], LAMBDA t : After(t, windowStart))
  IN IF Len(recent) >= maxRequests
     THEN [ok |-> FALSE, rateLimiter |-> rateLimiter]
     ELSE [ok |-> TRUE,  rateLimiter |-> [rateLimiter EXCEPT ![userID] = Append(@, now)]]

checkRateLimit(userID) ==
  LET windowStart == now - rateWindow
      recent      == SelectSeq(rateLimiter[userID], LAMBDA t : After(t, windowStart))
  IN IF Len(recent) >= maxRequests
     THEN [ok |-> FALSE, rateLimiter |-> [rateLimiter EXCEPT ![userID] = recent]]
     ELSE [ok |-> TRUE,  rateLimiter |-> [rateLimiter EXCEPT ![userID] = Append(recent, now)]]

(***************************************************************************)
(* Dispatcher (ollama.go:390-488)                                          *)
(*                                                                         *)
(* res is what Ollama.SendPrompt returns if it is called: [ok |-> TRUE,    *)
(* response |-> text] or [ok |-> FALSE, err |-> text].  failed is the set  *)
(* of positions, among the SendMessage calls of this dispatch, of the      *)
(* calls that return an error.  Each operator yields the SendMessage       *)
(* calls, the log lines and the SendPrompt calls made, and the new         *)
(* rateLimiter map.                                                        *)
(***************************************************************************)
ChunkSize == 4000

\* fmt.Sprintf("%d", n) for n >= 0
RECURSIVE Decimal(_)
Decimal(n) == IF n < 10 THEN <<48 + n>> ELSE Decimal(n \div 10) \o <<48 + (n % 10)>>

\* ollama.go:453
TooLongText(n) == TooLongPrefix \o Decimal(n) \o TooLongSuffix

\* one SendMessage call, the k-th of the dispatch
Send(chatID, text, k, failed) == [chat |-> chatID, text |-> text, ok |-> k \notin failed]

LogLine(line, chatID, detail) == [line |-> line, chat |-> chatID, detail |-> detail]

\* the text sent when SendPrompt fails (ollama.go:465; ollama.go:708 in the first version)
FailureReplyWithDetail(err) == LeakPrefix \o err
FailureReply(err) == GenericFailureText

\* the text sent for parts[i] (1-based i), ollama.go:476-479
PartTextNoMarker(parts, i) == parts[i]
PartText(parts, i) ==
  IF i = 1 /\ Len(parts) > 1 THEN parts[i] \o ContinuationMarker ELSE parts[i]

\* ollama.go:444-488
\* (handleTextMessageStopOnError: the loop over the parts ends at the first part
\* whose send fails)
handleTextMessageStopOnError(chatID, text, res, failed) ==
  LET chk == checkRateLimit(chatID)
  IN IF ~chk.ok
     THEN [sent |-> <<Send(chatID, RateLimitedText, 1, failed)>>, logs |-> <<>>,
           prompts |-> <<>>, rateLimiter |-> chk.rateLimiter]
     ELSE IF Len(text) > maxPromptLen
     THEN [sent |-> <<Send(chatID, TooLongText(maxPromptLen), 1, failed)>>, logs |-> <<>>,
           prompts |-> <<>>, rateLimiter |-> chk.rateLimiter]
     ELSE IF ~res.ok
     THEN [sent |-> <<Send(chatID, AckText, 1, failed),
                      Send(chatID, FailureReply(res.err), 2, failed)>>,
           logs |-> <<LogLine("ollama error", chatID, res.err)>>
                    \o (IF 2 \in failed THEN <<LogLine("send error", chatID, <<>>)>> ELSE <<>>),
           prompts |-> <<text>>, rateLimiter |-> chk.rateLimiter]
     ELSE LET parts == SplitMessage(res.response, ChunkSize)
              bad   == {i \in 1..Len(parts) : (i + 1) \in failed}
              last  == IF bad = {} THEN Len(parts)
                       ELSE CHOOSE i \in bad : \A j \in bad : i <= j
          IN [sent |-> <<Send(chatID, AckText, 1, failed)>>
                       \o [i \in 1..last |-> Send(chatID, PartText(parts, i), i + 1, failed)],
              logs |-> IF bad = {} THEN <<>> ELSE <<LogLine("send error", chatID, <<>>)>>,
              prompts |-> <<text>>, rateLimiter |-> chk.rateLimiter]

\* (handleTextMessageLengthFirst: the length of the text is checked before the
\* limiter is asked)
handleTextMessageLengthFirst(chatID, text, res, failed) ==
  IF Len(text) > maxPromptLen
  THEN [sent |-> <<Send(chatID, TooLongText(maxPromptLen), 1, failed)>>, logs |-> <<>>,
        prompts |-> <<>>, rateLimiter |-> rateLimiter]
  ELSE LET chk == checkRateLimit(chatID)
       IN IF ~chk.ok
          THEN [sent |-> <<Send(chatID, RateLimitedText, 1, failed)>>, logs |-> <<>>,
                prompts |-> <<>>, rateLimiter |-> chk.rateLimiter]
          ELSE IF ~res.ok
          THEN [sent |-> <<Send(chatID, AckText, 1, failed),
                           Send(chatID, FailureReply(res.err), 2, failed)>>,
                logs |-> <<LogLine("ollama error", chatID, res.err)>>
                         \o (IF 2 \in failed THEN <<LogLine("send error", chatID, <<>>)>>
                             ELSE <<>>),
                prompts |-> <<text>>, rateLimiter |-> chk.rateLimiter]
          ELSE LET parts == SplitMessage(res.response, ChunkSize)
               IN [sent |-> <<Send(chatID, AckText, 1, failed)>>
                            \o [i \in 1..Len(parts) |->
                                  Send(chatID, PartText(parts, i), i + 1, failed)],
                   logs |-> SelectSeq([i \in 1..Len(parts) |->
                                         IF (i + 1) \in failed
                                         THEN LogLine("send error", chatID, <<>>)
                                         ELSE LogLine("", chatID, <<>>)],
                                      LAMBDA l : l.line # ""),
                   prompts |-> <<text>>, rateLimiter |-> chk.rateLimiter]

handleTextMessage(chatID, text, res, failed) ==
  LET chk == checkRateLimit(chatID)
  IN IF ~chk.ok
     THEN [sent |-> <<Send(chatID, RateLimitedText, 1, failed)>>, logs |-> <<>>,
           prompts |-> <<>>, rateLimiter |-> chk.rateLimiter]
     ELSE IF Len(text) > maxPromptLen
     THEN [sent |-> <<Send(chatID, TooLongText(maxPromptLen), 1, failed)>>, logs |-> <<>>,
           prompts |-> <<>>, rateLimiter |-> chk.rateLimiter]
     ELSE IF ~res.ok
     THEN [sent |-> <<Send(chatID, AckText, 1, failed),
                      Send(chatID, FailureReply(res.err), 2, failed)>>,
           logs |-> <<LogLine("ollama error", chatID, res.err)>>
                    \o (IF 2 \in failed THEN <<LogLine("send error", chatID, <<>>)>> ELSE <<>>),
           prompts |-> <<text>>, rateLimiter |-> chk.rateLimiter]
     ELSE LET parts == SplitMessage(res.response, ChunkSize)
          IN [sent |-> <<Send(chatID, AckText, 1, failed)>>
                       \o [i \in 1..Len(parts) |-> Send(chatID, PartText(parts, i), i + 1, failed)],
              logs |-> SelectSeq([i \in 1..Len(parts) |->
                                    IF (i + 1) \in failed
                                    THEN LogLine("send error", chatID, <<>>)
                                    ELSE LogLine("", chatID, <<>>)],
                                 LAMBDA l : l.line # ""),
              prompts |-> <<text>>, rateLimiter |-> chk.rateLimiter]

\* ollama.go:418-441
\* (handleCommandCounted: /start and /help ask the limiter too, and answer whatever
\* it says)
handleCommandCounted(chatID, command, res, failed) ==
  IF command \in {StartCommand, HelpCommand}
  THEN [sent |-> <<Send(chatID, IF command = StartCommand THEN StartText ELSE HelpText,
                       1, failed)>>,
        logs |-> IF 1 \in failed THEN <<LogLine("send error", chatID, <<>>)>> ELSE <<>>,
        prompts |-> <<>>, rateLimiter |-> checkRateLimit(chatID).rateLimiter]
  ELSE handleTextMessage(chatID, command, res, failed)

\* (handleCommandTrimmed: the default case hands on the command without its '/')
handleCommandTrimmed(chatID, command, res, failed) ==
  IF command = StartCommand
  THEN [sent |-> <<Send(chatID, StartText, 1, failed)>>,
        logs |-> IF 1 \in failed THEN <<LogLine("send error", chatID, <<>>)>> ELSE <<>>,
        prompts |-> <<>>, rateLimiter |-> rateLimiter]
  ELSE IF command = HelpCommand
  THEN [sent |-> <<Send(chatID, HelpText, 1, failed)>>,
        logs |-> IF 1 \in failed THEN <<LogLine("send error", chatID, <<>>)>> ELSE <<>>,
        prompts |-> <<>>, rateLimiter |-> rateLimiter]
  ELSE handleTextMessage(chatID, Tail(command), res, failed)

handleCommand(chatID, command, res, failed) ==
  IF command = StartCommand
  THEN [sent |-> <<Send(chatID, StartText, 1, failed)>>,
        logs |-> IF 1 \in failed THEN <<LogLine("send error", chatID, <<>>)>> ELSE <<>>,
        prompts |-> <<>>, rateLimiter |-> rateLimiter]
  ELSE IF command = HelpCommand
  THEN [sent |-> <<Send(chatID, HelpText, 1, failed)>>,
        logs |-> IF 1 \in failed THEN <<LogLine("send error", chatID, <<>>)>> ELSE <<>>,
        prompts |-> <<>>, rateLimiter |-> rateLimiter]
  ELSE handleTextMessage(chatID, command, res, failed)

\* nothing sent, logged or asked of the backend
Silent == [sent |-> <<>>, logs |-> <<>>, prompts |-> <<>>, rateLimiter |-> rateLimiter]

\* the authorization check of ollama.go:397-400 (absent from the first version,
\* ollama.go:654-672)
DeniedNoGuard(message) == FALSE
Denied(message) == ~isUserAllowed(message)

\* ollama.go:391-415; message is the pointer argument
HandleMessage(message, res, failed) ==
  IF message = <<>> \/ message[1].Chat = <<>> THEN Silent
  ELSE IF Denied(message[1])
  THEN [Silent EXCEPT !.logs = <<LogLine("unauthorized", message[1].Chat[1].ID, <<>>)>>]
  ELSE LET chatID == message[1].Chat[1].ID
           text   == message[1].Text
       IN IF Len(text) > 0 /\ text[1] = 47
          THEN handleCommand(chatID, text, res, failed)
          ELSE IF text # <<>>
          THEN handleTextMessage(chatID, text, res, failed)
          ELSE Silent

\* the sender identity of a message: its From if it has one, else its Chat
SenderIdentity(m) == IF m.From # <<>> THEN m.From[1].ID ELSE m.Chat[1].ID

\* is handleTextMessage called for the message (ollama.go:403-414, 438-440)?
IsFreeform(message) ==
  /\ message # <<>>
  /\ message[1].Chat # <<>>
  /\ ~Denied(message[1])
  /\ message[1].Text # <<>>
  /\ message[1].Text \notin {StartCommand, HelpCommand}

\* is the error of the k-th SendMessage call of a HandleMessage call logged?  The
\* sends of ollama.go:447, 453 and 458 drop it, those of 424, 432, 465 and 480 log it
SendLogged(out, k) == k >= 2 \/ out.sent[1].text \in {StartText, HelpText}

\* what a HandleMessage call with outcome out does after its first statements, in
\* the order of the code, one entry per blocking call: the first SendMessage; if
\* the backend is asked, the request of SendPrompt and then its return, logged if
\* it is an error; then the remaining SendMessage calls
CallSteps(out) ==
  LET Nothing == [sent |-> <<>>, prompts |-> <<>>, logs |-> <<>>]
      SendStep(k) ==
        [Nothing EXCEPT !.sent = <<out.sent[k]>>,
                        !.logs = IF ~out.sent[k].ok /\ SendLogged(out, k)
                                 THEN <<LogLine("send error", out.sent[k].chat, <<>>)>>
                                 ELSE <<>>]
      first == IF out.sent = <<>> THEN <<>> ELSE <<SendStep(1)>>
      ask   == IF out.prompts = <<>> THEN <<>>
               ELSE <<[Nothing EXCEPT !.prompts = out.prompts],
                      [Nothing EXCEPT !.logs = SelectSeq(out.logs,
                                                  LAMBDA l : l.line = "ollama error")]>>
      rest  == [k \in 1..(Len(out.sent) - 1) |-> SendStep(k + 1)]
  IN first \o ask \o rest

\* HandleMessage is called (ollama.go:391-403, 406-414, 419, 446, 452): the checks
\* of the message, the access guard with its log line, and, for a text that gets
\* to handleTextMessage, the call of checkRateLimit; no blocking call yet
HandleMessageEnters(message, res, failed) ==
  \E out \in {HandleMessage(message, res, failed)} :
     /\ ~ended
     /\ todo = <<>>
     /\ rateLimiter' = out.rateLimiter
     /\ lastMsg' = message
     /\ sent' = <<>>
     /\ logs' = SelectSeq(out.logs, LAMBDA l : l.line = "unauthorized")
     /\ prompts' = <<>>
     /\ reply' = <<res>>
     /\ allowed' = IF message = <<>> \/ message[1].Chat = <<>> THEN <<>>
                   ELSE <<isUserAllowed(message[1])>>
     /\ todo' = CallSteps(out)
     /\ entry' = [rateLimiter |-> rateLimiter, now |-> now]
     /\ UNCHANGED <<LastUpdate, AllowedUsers, maxRequests, rateWindow, maxPromptLen, mu>>

\* the call under way gets through its next blocking call (SendMessage at
\* ollama.go:424, 432, 447, 453, 458, 465, 480; SendPrompt at 461)
HandleMessageProceeds ==
  /\ ~ended
  /\ todo # <<>>
  /\ sent' = sent \o Head(todo).sent
  /\ prompts' = prompts \o Head(todo).prompts
  /\ logs' = logs \o Head(todo).logs
  /\ todo' = Tail(todo)
  /\ UNCHANGED <<lastMsg, reply, allowed, entry>>
  /\ UNCHANGED <<botVars, envVars, loopVars, rateObs, splitVars>>

(***************************************************************************)
(* Construction and the clock                                              *)
(***************************************************************************)
DefaultMaxRequests  == 10
DefaultRateWindow   == 60
DefaultMaxPromptLen == 4096

\* NewTelegramBot (ollama.go:186-235) with ALLOWED_USER_IDS, RATE_LIMIT_MAX,
\* RATE_LIMIT_WINDOW and MAX_PROMPT_LENGTH giving ids, maxReq, window, maxPrompt
NewTelegramBot(ids, maxReq, window, maxPrompt) ==
  /\ LastUpdate = 0
  /\ AllowedUsers = [k \in ids |-> TRUE]
  /\ rateLimiter = [k \in IDs |-> <<>>]
  /\ maxRequests = maxReq
  /\ rateWindow = window
  /\ maxPromptLen = maxPrompt
  /\ mu = 0

\* the goroutines that may call checkRateLimit at the same time, none in a call
MaxProcs == 2
Procs    == 1..MaxProcs
IdleProc == [pc |-> "idle", userID |-> 0, now |-> 0, recent |-> <<>>]

\* main before the goroutine starts (main.go:78-91); the clock starts at 0
MainStart ==
  /\ now = 0
  /\ ctxDone = FALSE
  /\ ended = FALSE
  /\ pc = "select"
  /\ updates = <<>>
  /\ idx = 0
  /\ offset = 0
  /\ recvMax = 0
  /\ fetch = [result |-> "none", at |-> 0]
  /\ trail = <<>>

NothingHandled ==
  /\ lastMsg = <<>>
  /\ sent = <<>>
  /\ logs = <<>>
  /\ prompts = <<>>
  /\ reply = <<>>
  /\ allowed = <<>>
  /\ todo = <<>>
  /\ entry = [rateLimiter |-> rateLimiter, now |-> now]
  /\ calls = <<>>
  /\ credited = [k \in IDs |-> <<>>]
  /\ earlier = {}
  /\ conforms = TRUE
  /\ procs = [p \in Procs |-> IdleProc]

SplitIdle ==
  /\ smText = <<>>
  /\ smMaxLen = 0
  /\ smLimit = 0
  /\ smCurrent = <<>>
  /\ smParts = <<>>
  /\ smCuts = <<>>
  /\ smPc = "idle"

\* clock readings around the start and around one rate window later
MaxEarly == 2
ClockReadings == (0..MaxEarly) \cup (rateWindow..(rateWindow + MaxEarly))

\* time passes: the next reading of time.Now() is a later one
Tick ==
  /\ \E t \in ClockReadings : t > now /\ now' = t
  /\ UNCHANGED <<ctxDone, ended, botVars, loopVars, obsVars, rateObs, splitVars>>

\* main.go:120-122: the signal arrives and main calls cancel()
Cancel ==
  /\ ~ctxDone
  /\ ctxDone' = TRUE
  /\ UNCHANGED <<now, ended, botVars, loopVars, obsVars, rateObs, splitVars>>

\* main.go:123-126: one second after cancel() main returns and the process ends,
\* wherever the goroutine stands
MainReturns ==
  /\ ctxDone
  /\ ~ended
  /\ ended' = TRUE
  /\ UNCHANGED <<now, ctxDone, botVars, loopVars, obsVars, rateObs, splitVars>>

(***************************************************************************)
(* SpecSplit: runs of SplitMessage                                         *)
(***************************************************************************)
MaxTextLen  == 5
MaxSmallLen == 3

ShortTexts == SeqsUpTo({97, SP, NL}, MaxTextLen)
SmallLens  == (-1)..MaxSmallLen

\* texts longer than the corrected limit, and their maxLen
LongTexts == {Rep(97, DefaultMaxLen + 1),
              Rep(97, DefaultMaxLen - 10) \o <<NL>> \o Rep(97, 20),
              Rep(97, DefaultMaxLen - 10) \o <<SP, SP>> \o Rep(97, 20),
              Rep(97, 2 * DefaultMaxLen + 1)}
LongLens  == {-1, 0, DefaultMaxLen}

\* texts around the search windows, and their maxLen
WindowLen   == 120
WindowTexts == {Rep(97, p) \o <<c>> \o Rep(97, WindowLen + 5 - p) :
                  p \in {WindowLen - NewlineWindow - 1, WindowLen - NewlineWindow,
                          WindowLen - SpaceWindow - 1, WindowLen - SpaceWindow,
                          WindowLen - 1},
                  c \in {SP, NL}}

SplitInputs == (ShortTexts \X SmallLens) \cup (LongTexts \X LongLens)
                 \cup (WindowTexts \X {WindowLen})

InitSplit ==
  /\ NewTelegramBot({}, DefaultMaxRequests, DefaultRateWindow, DefaultMaxPromptLen)
  /\ MainStart
  /\ NothingHandled
  /\ \E in \in SplitInputs : smText = in[1] /\ smMaxLen = in[2]
  /\ smLimit = 0
  /\ smCurrent = <<>>
  /\ smParts = <<>>
  /\ smCuts = <<>>
  /\ smPc = "entry"

SpecSplit == InitSplit /\ [][NextSplit]_vars /\ WF_vars(NextSplit)

(***************************************************************************)
(* SpecRate: direct calls of checkRateLimit                                *)
(***************************************************************************)
MaxCapacity == 2
MaxCalls    == 4
RateIDs     == {5, 6}

CallCheckRateLimit(userID) ==
  /\ Len(calls) < MaxCalls
  /\ LET r == checkRateLimit(userID)
     IN /\ rateLimiter' = r.rateLimiter
        /\ calls' = Append(calls, [id |-> userID, t |-> now, ok |-> r.ok])
  /\ UNCHANGED <<credited, procs, earlier, conforms>>
  /\ UNCHANGED <<LastUpdate, AllowedUsers, maxRequests, rateWindow, maxPromptLen, mu>>
  /\ UNCHANGED <<envVars, loopVars, obsVars, splitVars>>

InitRate ==
  /\ \E n \in 1..MaxCapacity :
        NewTelegramBot({}, n, DefaultRateWindow, DefaultMaxPromptLen)
  /\ MainStart
  /\ NothingHandled
  /\ SplitIdle

NextRate == Tick \/ \E id \in RateIDs : CallCheckRateLimit(id)

SpecRate == InitRate /\ [][NextRate]_vars

(***************************************************************************)
(* SpecConc: checkRateLimit called from several goroutines, statement by   *)
(* statement (ollama.go:261-283)                                           *)
(***************************************************************************)
MaxConcCalls == 3

Calling == {p \in Procs : procs[p].pc # "idle"}

ConcFrame == UNCHANGED <<LastUpdate, AllowedUsers, maxRequests, rateWindow, maxPromptLen,
                         envVars, loopVars, obsVars, credited, earlier, conforms, splitVars>>

\* goroutine p calls checkRateLimit(userID)
CallStarts(p, userID) ==
  /\ procs[p].pc = "idle"
  /\ Len(calls) + Cardinality(Calling) < MaxConcCalls
  /\ procs' = [procs EXCEPT ![p] = [IdleProc EXCEPT !.pc = "lock", !.userID = userID]]
  /\ UNCHANGED <<rateLimiter, mu, calls>>
  /\ ConcFrame

\* line 262: bot.mu.Lock() returns once the mutex is free
\* (LockUnguarded: as if there were no mutex)
LockUnguarded(p) ==
  /\ procs[p].pc = "lock"
  /\ mu' = p
  /\ procs' = [procs EXCEPT ![p].pc = "filter"]
  /\ UNCHANGED <<rateLimiter, calls>>
  /\ ConcFrame

Lock(p) ==
  /\ procs[p].pc = "lock"
  /\ mu = 0
  /\ mu' = p
  /\ procs' = [procs EXCEPT ![p].pc = "filter"]
  /\ UNCHANGED <<rateLimiter, calls>>
  /\ ConcFrame

\* lines 265-274: now, windowStart and the filtered list recent
Filter(p) ==
  /\ procs[p].pc = "filter"
  /\ procs' = [procs EXCEPT
                 ![p].pc = "store",
                 ![p].now = now,
                 ![p].recent = SelectSeq(rateLimiter[procs[p].userID],
                                         LAMBDA t : After(t, now - rateWindow))]
  /\ UNCHANGED <<rateLimiter, mu, calls>>
  /\ ConcFrame

\* lines 276-282: the decision and the write to the map; the value returned is
\* noted in calls
Store(p) ==
  /\ procs[p].pc = "store"
  /\ LET ok == ~(Len(procs[p].recent) >= maxRequests)
     IN /\ rateLimiter' = [rateLimiter EXCEPT ![procs[p].userID] =
                             IF ok THEN Append(procs[p].recent, procs[p].now)
                             ELSE procs[p].recent]
        /\ calls' = Append(calls, [id |-> procs[p].userID, t |-> procs[p].now, ok |-> ok])
  /\ procs' = [procs EXCEPT ![p].pc = "unlock"]
  /\ UNCHANGED mu
  /\ ConcFrame

\* line 263: the deferred bot.mu.Unlock(), and the call returns
Unlock(p) ==
  /\ procs[p].pc = "unlock"
  /\ mu' = 0
  /\ procs' = [procs EXCEPT ![p] = IdleProc]
  /\ UNCHANGED <<rateLimiter, calls>>
  /\ ConcFrame

InitConc ==
  /\ \E n \in 1..MaxCapacity : NewTelegramBot({}, n, DefaultRateWindow, DefaultMaxPromptLen)
  /\ MainStart
  /\ NothingHandled
  /\ SplitIdle

NextConc ==
  \/ Tick
  \/ \E p \in Procs, id \in RateIDs : CallStarts(p, id)
  \/ \E p \in Procs : Lock(p)
  \/ \E p \in Procs : Filter(p)
  \/ \E p \in Procs : Store(p)
  \/ \E p \in Procs : Unlock(p)

SpecConc == InitConc /\ [][NextConc]_vars

(***************************************************************************)
(* Messages, backend answers and send failures the specifications draw     *)
(***************************************************************************)
User(id) == <<[ID |-> id]>>
Chat(id) == <<[ID |-> id]>>

Message(from, chat, text) == [From |-> from, Chat |-> chat, Text |-> text]

Ok(text)     == [ok |-> TRUE, response |-> text, err |-> <<>>]
Failure(err) == [ok |-> FALSE, response |-> <<>>, err |-> err]

\* "hi", "/foo", "ok"
Hi         == <<104, 105>>
FooCommand == <<47, 102, 111, 111>>
ShortReply == <<111, 107>>

\* an error text of SendPrompt: "status 500: db=10.0.0.7"
BackendErrors == {<<115, 116, 97, 116, 117, 115, 32, 53, 48, 48, 58, 32, 100, 98, 61, 49, 48,
                    46, 48, 46, 48, 46, 55>>}

\* HandleMessage is called with a message of msgs; the backend will answer with
\* one of answers and the sends will fail as one of failures says
Dispatch(msgs, answers, failures) ==
  /\ \E m \in msgs, res \in answers, failed \in failures :
        HandleMessageEnters(<<m>>, res, failed)
  /\ UNCHANGED <<envVars, loopVars, rateObs, splitVars>>

\* HandleMessage is called with a freeform message of msgs that the backend will
\* answer, noted for its sender identity (the first MaxNoted per identity) with
\* the time and the limiter's answer
MaxNoted == 2

DispatchNoted(msgs) ==
  /\ \E m \in msgs :
        /\ IsFreeform(<<m>>)
        /\ HandleMessageEnters(<<m>>, Ok(ShortReply), {})
        /\ credited' =
             IF Len(credited[SenderIdentity(m)]) < MaxNoted
             THEN [credited EXCEPT ![SenderIdentity(m)] =
                     Append(@, [t |-> now, chat |-> m.Chat[1].ID,
                                ok |-> checkRateLimit(m.Chat[1].ID).ok])]
             ELSE credited
  /\ UNCHANGED <<envVars, loopVars, calls, procs, earlier, conforms, splitVars>>

\* the clock jumps past one rate window (once)
WindowPasses ==
  /\ now <= rateWindow
  /\ now' = now + rateWindow + 1
  /\ UNCHANGED <<ctxDone, ended, botVars, loopVars, obsVars, rateObs, splitVars>>

(***************************************************************************)
(* SpecDispatch: HandleMessage on messages of every kind, capacity 1       *)
(***************************************************************************)
SmallPromptLen == 4

\* private chats of users 5 and 6, both in group chat 7, a post without sender
\* in chat 7, and a message of user 6 without chat
DispatchEndpoints ==
  {<<User(5), Chat(5)>>, <<User(6), Chat(6)>>, <<User(5), Chat(7)>>, <<User(6), Chat(7)>>,
   <<<<>>, Chat(7)>>, <<User(6), <<>>>>}

DispatchTexts ==
  {<<>>, StartCommand, HelpCommand, FooCommand, Hi, Rep(97, maxPromptLen + 1),
   <<47>> \o Rep(97, maxPromptLen)}

DispatchMessages == {Message(e[1], e[2], t) : e \in DispatchEndpoints, t \in DispatchTexts}

DispatchAnswers == {Ok(ShortReply)} \cup {Failure(e) : e \in BackendErrors}

SendFailures == {{}, {1, 2}}

InitDispatch ==
  /\ \E ids \in {{}, {5}, {7}} :
        NewTelegramBot(ids, 1, DefaultRateWindow, SmallPromptLen)
  /\ MainStart
  /\ NothingHandled
  /\ SplitIdle

NextDispatch ==
  \/ WindowPasses
  \/ Dispatch(DispatchMessages, DispatchAnswers, SendFailures)
  \/ HandleMessageProceeds
  \/ Cancel
  \/ MainReturns

SpecDispatch == InitDispatch /\ [][NextDispatch]_vars

(***************************************************************************)
(* SpecSenders: freeform messages of two users, each in a private chat and *)
(* both in one group chat                                                  *)
(***************************************************************************)
SenderEndpoints ==
  {<<User(5), Chat(5)>>, <<User(6), Chat(6)>>, <<User(5), Chat(7)>>, <<User(6), Chat(7)>>}

SenderMessages == {Message(e[1], e[2], Hi) : e \in SenderEndpoints}

InitSenders ==
  /\ \E n \in 1..MaxCapacity : NewTelegramBot({}, n, DefaultRateWindow, SmallPromptLen)
  /\ MainStart
  /\ NothingHandled
  /\ SplitIdle

NextSenders ==
  \/ WindowPasses
  \/ DispatchNoted(SenderMessages)
  \/ HandleMessageProceeds
  \/ Cancel
  \/ MainReturns

SpecSenders == InitSenders /\ [][NextSenders]_vars

(***************************************************************************)
(* SpecDefault: HandleMessage under the default configuration              *)
(***************************************************************************)
LongPromptLen == 10000
LongReplyLen  == 9000

DefaultMessages ==
  {Message(User(5), Chat(5), t) :
     t \in {Hi, Rep(97, LongPromptLen), Rep(97, DefaultMaxPromptLen)}}

\* a short reply, and replies of 9000 bytes: without blanks; with 1000 blanks
\* after the first 4000; with a newline shortly before byte 4000; and with nothing
\* but blanks after the first 4000
DefaultAnswers ==
  {Ok(ShortReply),
   Ok(Rep(97, LongReplyLen)),
   Ok(Rep(97, ChunkSize) \o Rep(SP, LongReplyLen - 2 * ChunkSize) \o Rep(97, ChunkSize)),
   Ok(Rep(97, ChunkSize - 10) \o <<NL>> \o Rep(97, LongReplyLen - ChunkSize + 9)),
   Ok(Rep(97, ChunkSize) \o Rep(SP, LongReplyLen - ChunkSize)),
   Failure(<<69, 79, 70>>)}

InitDefault ==
  /\ NewTelegramBot({}, DefaultMaxRequests, DefaultRateWindow, DefaultMaxPromptLen)
  /\ MainStart
  /\ NothingHandled
  /\ SplitIdle

\* the number of HandleMessage calls of a run is bounded: every message of
\* DefaultMessages is admitted and leaves one entry in the limiter
MaxDefaultCalls == 3

DefaultCallsLeft == \A id \in IDs : Len(rateLimiter[id]) < MaxDefaultCalls

NextDefault ==
  \/ (DefaultCallsLeft /\ Dispatch(DefaultMessages, DefaultAnswers, {{}, {2}}))
  \/ HandleMessageProceeds
  \/ Cancel
  \/ MainReturns

SpecDefault == InitDefault /\ [][NextDefault]_vars

(***************************************************************************)
(* Spec: the intake goroutine of main (main.go:91-117)                     *)
(***************************************************************************)
MaxUpdateID    == 3
MaxBatch       == 2
MaxClock       == 10
BackoffSeconds == 5

\* what a dispatch meets: the backend's answer and the failing sends
LoopOutcomes == {<<Ok(ShortReply), {}>>, <<Failure(<<69, 79, 70>>), 1..2>>}

\* Update (ollama.go:134-137): the updates with an odd id carry a message, "hi"
\* of user 5 in chat 5, the others none (Message is nil); a batch is any sequence
\* of them, so every pattern of events with and without message occurs
UpdateMessage(id) == IF id % 2 = 1 THEN <<Message(User(5), Chat(5), Hi)>> ELSE <<>>

Updates == {[UpdateID |-> id, Message |-> UpdateMessage(id)] : id \in 1..MaxUpdateID}
Batches == SeqsUpTo(Updates, MaxBatch)

\* the highest UpdateID of a batch, at least floor
RECURSIVE MaxID(_, _)
MaxID(batch, floor) ==
  IF batch = <<>> THEN floor
  ELSE MaxID(Tail(batch), Max(floor, Head(batch).UpdateID))

\* main.go:93-95: the context is cancelled at the top of an iteration
LoopReturns ==
  /\ ~ended
  /\ pc = "select"
  /\ ctxDone
  /\ pc' = "returned"
  /\ UNCHANGED <<updates, idx, offset, recvMax, fetch, trail>>
  /\ UNCHANGED <<botVars, envVars, obsVars, rateObs, splitVars>>

\* ollama.go:287: the offset parameter of the request, bot.LastUpdate+1
\* (RequestOffsetSame: the watermark itself)
RequestOffsetSame(last) == last
RequestOffset(last) == last + 1

\* main.go:96-97 and ollama.go:287: the default case issues the getUpdates request
\* (select takes default only if ctx.Done() is not ready; the first version of
\* main, main.go:31-32, fetches without any check)
CallGetUpdatesUnchecked ==
  /\ ~ended
  /\ pc = "select"
  /\ offset' = RequestOffset(LastUpdate)
  /\ pc' = "getUpdates"
  /\ fetch' = [result |-> "pending", at |-> now]
  /\ UNCHANGED <<updates, idx, recvMax, trail>>
  /\ UNCHANGED <<botVars, envVars, obsVars, rateObs, splitVars>>

CallGetUpdates ==
  /\ ~ended
  /\ pc = "select"
  /\ ~ctxDone
  /\ offset' = RequestOffset(LastUpdate)
  /\ pc' = "getUpdates"
  /\ fetch' = [result |-> "pending", at |-> now]
  /\ UNCHANGED <<updates, idx, recvMax, trail>>
  /\ UNCHANGED <<botVars, envVars, obsVars, rateObs, splitVars>>

\* main.go:98-100: GetUpdates returned an error, which is logged
\* (the first version of main, main.go:33-37, continues at once)
GetUpdatesFailsNoBackoff ==
  /\ ~ended
  /\ pc = "getUpdates"
  /\ now + BackoffSeconds <= MaxClock
  /\ pc' = "select"
  /\ fetch' = [result |-> "failed", at |-> now]
  /\ UNCHANGED <<updates, idx, offset, recvMax, trail>>
  /\ UNCHANGED <<botVars, envVars, obsVars, rateObs, splitVars>>

GetUpdatesFails ==
  /\ ~ended
  /\ pc = "getUpdates"
  /\ now + BackoffSeconds <= MaxClock
  /\ pc' = "sleep"
  /\ fetch' = [result |-> "failed", at |-> now]
  /\ UNCHANGED <<updates, idx, offset, recvMax, trail>>
  /\ UNCHANGED <<botVars, envVars, obsVars, rateObs, splitVars>>

\* main.go:101-102: time.Sleep(5 * time.Second); continue
BackoffEnds ==
  /\ ~ended
  /\ pc = "sleep"
  /\ now' = now + BackoffSeconds
  /\ pc' = "select"
  /\ UNCHANGED <<ctxDone, ended, updates, idx, offset, recvMax, fetch, trail>>
  /\ UNCHANGED <<botVars, obsVars, rateObs, splitVars>>

\* main.go:97,106: GetUpdates returned a batch; the range loop starts
GetUpdatesReturns ==
  /\ ~ended
  /\ pc = "getUpdates"
  /\ \E batch \in Batches :
        /\ updates' = batch
        /\ recvMax' = MaxID(batch, recvMax)
        /\ idx' = 1
        /\ pc' = IF batch = <<>> THEN "select" ELSE "advance"
  /\ fetch' = [result |-> "ok", at |-> now]
  /\ trail' = <<>>
  /\ UNCHANGED offset
  /\ UNCHANGED <<botVars, envVars, obsVars, rateObs, splitVars>>

\* main.go:107-109
NextWatermarkNever(last, id) == last
NextWatermarkLatest(last, id) == id
NextWatermark(last, id) == IF id > last THEN id ELSE last

\* main.go:107-109 for updates[idx]
AdvanceWatermark ==
  /\ ~ended
  /\ pc = "advance"
  /\ LastUpdate' = NextWatermark(LastUpdate, updates[idx].UpdateID)
  /\ pc' = "dispatch"
  /\ UNCHANGED <<updates, idx, offset, recvMax, fetch, trail>>
  /\ UNCHANGED <<AllowedUsers, rateLimiter, maxRequests, rateWindow, maxPromptLen, mu>>
  /\ UNCHANGED <<envVars, obsVars, rateObs, splitVars>>

\* main.go:106: where the range loop goes after the body for the i-th of n updates
AfterUpdateBreak(i, n) == "select"
AfterUpdate(i, n) == IF i < n THEN "advance" ELSE "select"

\* main.go:111-113 for updates[idx]: HandleMessage is called if the update has a
\* message; if not, on to the next update or iteration
DispatchUpdate ==
  /\ ~ended
  /\ pc = "dispatch"
  /\ IF updates[idx].Message # <<>>
     THEN /\ \E o \in LoopOutcomes : HandleMessageEnters(updates[idx].Message, o[1], o[2])
          /\ pc' = "handling"
          /\ UNCHANGED idx
     ELSE /\ idx' = idx + 1
          /\ pc' = AfterUpdate(idx, Len(updates))
          /\ UNCHANGED <<botVars, obsVars>>
  /\ UNCHANGED <<updates, offset, recvMax, fetch, trail>>
  /\ UNCHANGED <<envVars, rateObs, splitVars>>

\* did the HandleMessage call that is returning meet an error (of the backend or
\* of a send)?  (an observation: HandleMessage returns nothing)
MetError ==
  \/ prompts # <<>> /\ ~reply[1].ok
  \/ \E k \in 1..Len(sent) : ~sent[k].ok

\* main.go:112-114: HandleMessage returns; on to the next update or iteration
HandleMessageReturns ==
  /\ ~ended
  /\ pc = "handling"
  /\ todo = <<>>
  /\ trail' = Append(trail, [index |-> idx, failed |-> MetError])
  /\ idx' = idx + 1
  /\ pc' = AfterUpdate(idx, Len(updates))
  /\ UNCHANGED <<updates, offset, recvMax, fetch>>
  /\ UNCHANGED <<botVars, envVars, obsVars, rateObs, splitVars>>

Init ==
  /\ NewTelegramBot({}, 1, DefaultRateWindow, DefaultMaxPromptLen)
  /\ MainStart
  /\ NothingHandled
  /\ SplitIdle

Next ==
  \/ LoopReturns
  \/ CallGetUpdates
  \/ GetUpdatesFails
  \/ BackoffEnds
  \/ GetUpdatesReturns
  \/ AdvanceWatermark
  \/ DispatchUpdate
  \/ HandleMessageProceeds
  \/ HandleMessageReturns
  \/ Cancel
  \/ MainReturns

Spec == Init /\ [][Next]_vars

\* the steps of the goroutine; while the process lives the Go scheduler keeps
\* running it, the HTTP clients of GetUpdates, SendMessage and SendPrompt have
\* timeouts and time.Sleep ends, so a step that can be taken is taken
LoopStep ==
  \/ LoopReturns
  \/ CallGetUpdates
  \/ GetUpdatesFails
  \/ BackoffEnds
  \/ GetUpdatesReturns
  \/ AdvanceWatermark
  \/ DispatchUpdate
  \/ HandleMessageProceeds
  \/ HandleMessageReturns

\* nothing is assumed about when main returns after cancel(): MainReturns may
\* happen at any point after the signal, or be delayed for as long as the loop
\* needs, so what the loop owes is checked on the runs in which the process
\* stays alive as well as on those in which it ends under the goroutine
SpecLive == Init /\ [][Next]_vars /\ WF_vars(LoopStep)

(***************************************************************************)
(* SpecEvents: the intake loop on batches of updates of every kind         *)
(***************************************************************************)
MaxEventID    == 3
MaxEventBatch == 2

\* Update.Message: update 1 has none (nil) or "hi" of user 5, who is on the
\* allow-list; update 2 has "hi" of user 6, who is not, or /start of user 5; an
\* update with a higher id has /help or an empty text of user 5
EventMessages(id) ==
  IF id = 1 THEN {<<>>, <<Message(User(5), Chat(5), Hi)>>}
  ELSE IF id = 2
  THEN {<<Message(User(6), Chat(6), Hi)>>, <<Message(User(5), Chat(5), StartCommand)>>}
  ELSE {<<Message(User(5), Chat(5), HelpCommand)>>, <<Message(User(5), Chat(5), <<>>)>>}

Events ==
  UNION {{[UpdateID |-> id, Message |-> m] : m \in EventMessages(id)} : id \in 1..MaxEventID}

\* what GetUpdates may return (ollama.go:330-335): whatever the answer carries
EventBatches == SeqsUpTo(Events, MaxEventBatch)

\* main.go:97,106: GetUpdates returned a batch; the range loop starts
EventsReturn ==
  /\ ~ended
  /\ pc = "getUpdates"
  /\ \E batch \in EventBatches :
        /\ updates' = batch
        /\ recvMax' = MaxID(batch, recvMax)
        /\ idx' = 1
        /\ pc' = IF batch = <<>> THEN "select" ELSE "advance"
        /\ conforms' = (conforms /\ \A i \in 1..Len(batch) : batch[i].UpdateID >= offset)
  /\ fetch' = [result |-> "ok", at |-> now]
  /\ trail' = <<>>
  /\ earlier' = earlier \cup {updates[i].UpdateID : i \in 1..Len(updates)}
  /\ UNCHANGED offset
  /\ UNCHANGED <<botVars, envVars, obsVars, calls, credited, procs, splitVars>>

InitEvents ==
  /\ NewTelegramBot({5}, MaxCapacity, DefaultRateWindow, DefaultMaxPromptLen)
  /\ MainStart
  /\ NothingHandled
  /\ SplitIdle

NextEvents ==
  \/ LoopReturns
  \/ CallGetUpdates
  \/ GetUpdatesFails
  \/ BackoffEnds
  \/ EventsReturn
  \/ AdvanceWatermark
  \/ DispatchUpdate
  \/ HandleMessageProceeds
  \/ HandleMessageReturns
  \/ Cancel
  \/ MainReturns

SpecEvents == InitEvents /\ [][NextEvents]_vars

(***************************************************************************)
(* Claims about the intake loop (Spec)                                     *)
(***************************************************************************)
\* how many updates of the current batch the range loop has taken (lines 107-109 done)
Taken ==
  IF pc = "advance" THEN idx - 1
  ELSE IF pc \in {"dispatch", "handling"} THEN idx
  ELSE Len(updates)

\* the range loop is inside a batch
InBatch == pc \in {"advance", "dispatch", "handling"}

IDsOf(batch) == [i \in 1..Len(batch) |-> batch[i].UpdateID]

\* C1: the watermark is the highest update_id among the events the loop has
\* received and taken so far (0 if none): inside a batch, the highest of the
\* watermark the fetch started from and the ids taken; between batches, the highest
\* id of all batches received.  It never decreases, and every getUpdates request
\* carries offset = watermark + 1.
C1_Watermark ==
  /\ [](InBatch => LastUpdate = MaxID(SubSeq(updates, 1, Taken), offset - 1))
  /\ [](~InBatch => LastUpdate = recvMax)
  /\ [](pc = "getUpdates" => offset = recvMax + 1)
  /\ [][LastUpdate' >= LastUpdate]_vars

\* C1 witness: the batch [3,1] has been processed and the next request is out,
\* with watermark 3 and offset 4
C1_Witness ==
  /\ pc = "getUpdates"
  /\ IDsOf(updates) = <<3, 1>>
  /\ LastUpdate = 3
  /\ offset = 4

\* C11: once the context is cancelled, the loop, when it is next at the top of
\* its iteration, can only return (it starts no fetch while the signal is set);
\* it does eventually return if the fetch, the backoff and the dispatches under
\* way complete; only the end of the process (main returns one second after
\* cancel()) can come before that, and as long as the process lives the loop is
\* on its way to the return; it stays returned and returns for no other reason.
C11_Shutdown ==
  /\ (ctxDone ~> (pc = "returned" \/ ended))
  /\ [][(ctxDone /\ pc = "select" /\ pc' # "select") => pc' = "returned"]_vars
  /\ [][(pc # "getUpdates" /\ pc' = "getUpdates") => ~ctxDone]_vars
  /\ [][pc = "returned" => pc' = "returned"]_vars
  /\ [](pc = "returned" => ctxDone)

\* C11 witness: the loop has returned after the signal, having gone through a
\* full batch with a failed dispatch in it
C11_Witness ==
  /\ pc = "returned"
  /\ ctxDone
  /\ Len(updates) = MaxBatch
  /\ \E k \in 1..Len(trail) : trail[k].failed

\* C12: a failed fetch changes neither the watermark nor anything a dispatch
\* would change and sends the loop to its backoff; until the next fetch is issued
\* the watermark stays where the failed request found it and nothing is
\* dispatched; the loop ends the backoff only BackoffSeconds later, returns only
\* if the context is cancelled, and otherwise, unless the process ends, issues the
\* next fetch, with the offset of the failed one and no earlier than BackoffSeconds
\* after the failure.
C12_FetchFailure ==
  /\ [][(fetch.result # "failed" /\ fetch'.result = "failed") =>
          (LastUpdate' = LastUpdate /\ UNCHANGED <<obsVars, rateLimiter, trail>> /\ pc' = "sleep")]_vars
  /\ [](fetch.result = "failed" =>
          (offset = LastUpdate + 1 /\ pc \in {"sleep", "select", "returned"}))
  /\ [](fetch.result = "failed" /\ pc = "returned" => ctxDone)
  /\ [][(pc = "sleep" /\ pc' # "sleep") =>
          (pc' = "select" /\ now' >= now + BackoffSeconds)]_vars
  /\ [][(fetch.result = "failed" /\ pc' = "getUpdates") =>
          (offset' = offset /\ now' >= fetch.at + BackoffSeconds)]_vars
  /\ (fetch.result = "failed" ~> (pc = "getUpdates" \/ pc = "returned" \/ ended))

\* C12 witness: after a batch was processed a fetch failed, and the retry is out,
\* BackoffSeconds later and with the same offset
C12_Witness ==
  /\ pc = "getUpdates"
  /\ fetch.result = "pending"
  /\ now >= BackoffSeconds
  /\ LastUpdate > 0
  /\ offset = LastUpdate + 1
  /\ ~ctxDone

\* how many updates of the current batch the range loop is through with
Handled == IF InBatch THEN idx - 1 ELSE Len(updates)

\* the positions, among the first n of the batch, of the updates carrying a message
MessageIndices(batch, n) ==
  SelectSeq([i \in 1..n |-> i], LAMBDA i : batch[i].Message # <<>>)

\* C13: the HandleMessage calls that have returned for the current batch are, in
\* order, exactly those for the updates with a message among the updates the loop
\* is through with, whatever errors these calls met, and a call is made only when
\* the one before has returned; so once the loop has left the batch every update
\* with a message was dispatched, in the order delivered.  From inside a batch
\* the loop always goes on to the next fetch (or returns, the context being
\* cancelled), unless the process ends.
C13_BatchInOrder ==
  /\ []([k \in 1..Len(trail) |-> trail[k].index] = MessageIndices(updates, Handled))
  /\ [][Len(trail') <= Len(trail) + 1]_vars
  /\ [](InBatch => idx \in 1..Len(updates))
  /\ [](pc = "handling" => lastMsg = updates[idx].Message)
  /\ [](todo # <<>> => pc = "handling")
  /\ (InBatch ~> (pc = "getUpdates" \/ pc = "returned" \/ ended))

\* C13 witness: a batch of two messages, the dispatch of the first met an error,
\* the second was dispatched all the same and the next fetch is out
C13_Witness ==
  /\ pc = "getUpdates"
  /\ fetch.result = "pending"
  /\ Len(updates) = 2
  /\ Len(trail) = 2
  /\ trail[1].index = 1 /\ trail[1].failed
  /\ trail[2].index = 2

\* C15: when an update is handed to HandleMessage the watermark is already at or
\* above its id, and the call, whether it fails, returns or is cut short by the
\* end of the process, leaves the watermark alone.
C15_WatermarkBeforeDispatch ==
  /\ [](pc \in {"dispatch", "handling"} => LastUpdate >= updates[idx].UpdateID)
  /\ [][(pc \in {"dispatch", "handling"}) => (LastUpdate' = LastUpdate)]_vars
  /\ [](\A k \in 1..Len(trail) : LastUpdate >= updates[trail[k].index].UpdateID)

\* C15 witness: the dispatch of update 3, first of its batch, met an error, and
\* the watermark is 3
C15_Witness ==
  /\ trail # <<>>
  /\ trail[1].failed
  /\ updates[trail[1].index].UpdateID = 3
  /\ LastUpdate = 3
  /\ pc = "advance"

(***************************************************************************)
(* Claims about the rate limiter (SpecRate)                                *)
(***************************************************************************)
\* the calls before the k-th, for the same identity, that were accepted at a time
\* strictly later than u
AcceptedAfter(k, u) ==
  {j \in 1..(k - 1) : calls[j].id = calls[k].id /\ calls[j].ok /\ calls[j].t > u}

\* the accepted calls of identity id with a time in the window (u - W, u]
AcceptedIn(id, u) ==
  {j \in DOMAIN calls :
     calls[j].id = id /\ calls[j].ok /\ calls[j].t > u - rateWindow /\ calls[j].t <= u}

\* C2: a call at time t returns true iff fewer than N earlier accepted calls of the
\* same identity have a time strictly later than t - W; so no window of length W
\* holds more than N accepted calls of one identity.
C2_SlidingWindow ==
  /\ \A k \in DOMAIN calls :
        calls[k].ok <=> Cardinality(AcceptedAfter(k, calls[k].t - rateWindow)) < maxRequests
  /\ \A id \in RateIDs : \A u \in 0..(2 * rateWindow + MaxEarly) :
        Cardinality(AcceptedIn(id, u)) <= maxRequests

\* C2 witness: N = 2, W = 60, calls of one identity at 0, 1, 2 and 61 returned
\* true, true, false, true
C2_Witness ==
  /\ maxRequests = 2
  /\ rateWindow = 60
  /\ calls = <<[id |-> 5, t |-> 0, ok |-> TRUE], [id |-> 5, t |-> 1, ok |-> TRUE],
               [id |-> 5, t |-> 2, ok |-> FALSE], [id |-> 5, t |-> 61, ok |-> TRUE]>>

\* the entries of list strictly later than u, in order
Pruned(list, u) == SelectSeq(list, LAMBDA t : t > u)

\* C16: a call of checkRateLimit for an identity at reading now is accepted
\* exactly if the pruned list (the entries strictly later than now - rateWindow,
\* in order) has fewer than maxRequests entries; it stores the pruned list if it
\* rejects and the pruned list with now appended if it accepts, and leaves the
\* lists of all other identities as they were.
C16_StoredList ==
  [][calls' # calls =>
       LET c      == calls'[Len(calls')]
           pruned == Pruned(rateLimiter[c.id], now - rateWindow)
       IN /\ c.t = now
          /\ c.ok <=> Len(pruned) < maxRequests
          /\ rateLimiter'[c.id] = IF c.ok THEN Append(pruned, now) ELSE pruned
          /\ DOMAIN rateLimiter' = DOMAIN rateLimiter
          /\ \A o \in DOMAIN rateLimiter \ {c.id} : rateLimiter'[o] = rateLimiter[o]]_vars

\* C16 witness: capacity 2; identity 5 was accepted twice and rejected at reading
\* 0 (its list stayed <<0, 0>>), identity 6 was accepted at reading 1, and 5's
\* list is untouched by that
C16_Witness ==
  /\ maxRequests = 2
  /\ calls = <<[id |-> 5, t |-> 0, ok |-> TRUE], [id |-> 5, t |-> 0, ok |-> TRUE],
               [id |-> 5, t |-> 0, ok |-> FALSE], [id |-> 6, t |-> 1, ok |-> TRUE]>>
  /\ rateLimiter[5] = <<0, 0>>
  /\ rateLimiter[6] = <<1>>

\* C17 as stated: in every state, every retained timestamp of every identity lies
\* within [now - rateWindow, now].
C17_AsStated ==
  \A id \in DOMAIN rateLimiter : \A k \in 1..Len(rateLimiter[id]) :
     rateLimiter[id][k] >= now - rateWindow /\ rateLimiter[id][k] <= now

\* C17: no retained timestamp is later than now; a call of checkRateLimit for an
\* identity leaves in that identity's list only timestamps strictly later than
\* now - rateWindow (the entries at or before it are purged before the decision);
\* the list of an identity that is not called keeps its entries as time passes.
C17_WithinWindowAfterCall ==
  /\ [](\A id \in DOMAIN rateLimiter : \A k \in 1..Len(rateLimiter[id]) :
          rateLimiter[id][k] <= now)
  /\ [][calls' # calls =>
          LET c == calls'[Len(calls')]
          IN \A k \in 1..Len(rateLimiter'[c.id]) :
                rateLimiter'[c.id][k] > now - rateWindow /\ rateLimiter'[c.id][k] <= now]_vars
  /\ [][calls' = calls => rateLimiter' = rateLimiter]_vars

\* C17 witness: identity 5 was accepted at reading 0 and, a window later, at
\* reading 60: the entry 0 was purged; identity 6, accepted at reading 0 and not
\* called since, still holds its entry
C17_Witness ==
  /\ now = rateWindow
  /\ rateLimiter[5] = <<rateWindow>>
  /\ rateLimiter[6] = <<0>>
  /\ Len(calls) = 3
  /\ calls[3] = [id |-> 5, t |-> rateWindow, ok |-> TRUE]

\* the limiter run sequentially on the first k noted calls, in the order noted:
\* the map it ends with
RECURSIVE Replayed(_)
Replayed(k) ==
  IF k = 0 THEN [i \in IDs |-> <<>>]
  ELSE LET m      == Replayed(k - 1)
           c      == calls[k]
           pruned == Pruned(m[c.id], c.t - rateWindow)
       IN [m EXCEPT ![c.id] = IF Len(pruned) < maxRequests THEN Append(pruned, c.t)
                              ELSE pruned]

\* ... and its answer to the k-th
ReplayedOk(k) ==
  Len(Pruned(Replayed(k - 1)[calls[k].id], calls[k].t - rateWindow)) < maxRequests

\* C18: at most one caller is past Lock and it holds the mutex; the calls,
\* however interleaved, leave the map and return the values that the sequential
\* limiter yields on the same calls taken in the order in which they wrote; so no
\* identity is admitted more than maxRequests times within a window, and every
\* accepted timestamp still within the window of the identity's latest call is
\* in its list.
C18_Serialized ==
  /\ \A p, q \in Procs :
        (procs[p].pc \in {"filter", "store", "unlock"} /\ procs[q].pc \in {"filter", "store", "unlock"})
          => (p = q /\ mu = p)
  /\ rateLimiter = Replayed(Len(calls))
  /\ \A k \in 1..Len(calls) : calls[k].ok <=> ReplayedOk(k)
  /\ \A k \in 1..Len(calls) :
        calls[k].ok => Cardinality(AcceptedAfter(k, calls[k].t - rateWindow)) < maxRequests
  /\ \A k \in 1..Len(calls) : \A j \in 1..k :
        (/\ calls[j].ok /\ calls[j].id = calls[k].id
         /\ calls[j].t > calls[k].t - rateWindow
         /\ \A l \in (k + 1)..Len(calls) : calls[l].id # calls[k].id)
          => \E i \in 1..Len(rateLimiter[calls[k].id]) : rateLimiter[calls[k].id][i] = calls[j].t

\* C18 witness: capacity 1; two goroutines called for identity 5 at the same
\* time; one was accepted and has not yet unlocked, the other waits for the mutex
C18_Witness ==
  /\ maxRequests = 1
  /\ calls = <<[id |-> 5, t |-> 0, ok |-> TRUE]>>
  /\ \E p, q \in Procs :
        /\ procs[p].pc = "lock" /\ procs[p].userID = 5
        /\ procs[q].pc = "unlock" /\ procs[q].userID = 5 /\ mu = q

(***************************************************************************)
(* Claims about the dispatcher (SpecDispatch, SpecDefault)                 *)
(***************************************************************************)
\* the identities of the allow-list
AllowList == {k \in DOMAIN AllowedUsers : AllowedUsers[k]}

\* C3: isUserAllowed is true for every identity when the allow-list is empty, and
\* otherwise exactly when the sender identity is in the allow-list.
C3_AccessGuard ==
  allowed # <<>> =>
    (allowed[1] <=> (AllowList = {} \/ SenderIdentity(lastMsg[1]) \in AllowList))

\* C3 witness: allow-list {5}, a message of user 6, denied
C3_Witness ==
  /\ AllowList = {5}
  /\ lastMsg # <<>>
  /\ lastMsg[1].From = User(6)
  /\ allowed = <<FALSE>>

\* C4: a message whose sender the access guard denies causes no SendMessage call,
\* no SendPrompt call and exactly one log line.
C4_DeniedIsSilent ==
  allowed = <<FALSE>> => (sent = <<>> /\ prompts = <<>> /\ Len(logs) = 1 /\ todo = <<>>)

\* C4 witness: a command of a denied sender was dispatched
C4_Witness ==
  /\ allowed = <<FALSE>>
  /\ lastMsg[1].Text = FooCommand
  /\ Len(logs) = 1

\* text contains sub as a run of consecutive bytes
Contains(text, sub) ==
  \E i \in 0..(Len(text) - Len(sub)) : SubSeq(text, i + 1, i + Len(sub)) = sub

EndsWith(text, suffix) ==
  /\ Len(text) >= Len(suffix)
  /\ SubSeq(text, Len(text) - Len(suffix) + 1, Len(text)) = suffix

\* the most recent HandleMessage called SendPrompt and it failed
BackendFailed == prompts # <<>> /\ ~reply[1].ok

\* C10: when the backend call of an admitted message fails, the sends are the
\* acknowledgment and then, once the call is through, the one fixed failure text,
\* and no send contains the backend's error text.
C10_GenericFailure ==
  BackendFailed =>
    /\ Len(sent) \in 1..2
    /\ sent[1].text = AckText
    /\ Len(sent) = 2 => sent[2].text = GenericFailureText
    /\ todo = <<>> => Len(sent) = 2
    /\ \A i \in DOMAIN sent : ~Contains(sent[i].text, reply[1].err)

\* C10 witness: the backend failed and the failure text could not be delivered either
C10_Witness ==
  /\ BackendFailed
  /\ Len(sent) = 2
  /\ ~sent[2].ok

\* the configuration when no environment variable is set
DefaultConfiguration ==
  /\ AllowedUsers = <<>>
  /\ maxRequests = DefaultMaxRequests
  /\ rateWindow = DefaultRateWindow
  /\ maxPromptLen = DefaultMaxPromptLen

\* the most recent HandleMessage call, which has run to its end, got a freeform
\* text of an allowed sender whom the rate limiter admitted, and the backend answers
\* it with LongReplyLen bytes
AdmittedWithLongReply ==
  /\ DefaultConfiguration
  /\ todo = <<>>
  /\ lastMsg # <<>>
  /\ lastMsg[1].Text # <<>>
  /\ lastMsg[1].Text[1] # 47
  /\ allowed = <<TRUE>>
  /\ sent # <<>>
  /\ sent[1].text # RateLimitedText
  /\ reply[1].ok
  /\ Len(reply[1].response) = LongReplyLen

\* the acknowledgment, then two or more chunks of at most 4000 bytes, the first
\* with the marker
AckThenChunks ==
  /\ sent[1].text = AckText
  /\ Len(sent) >= 3
  /\ EndsWith(sent[2].text, ContinuationMarker)
  /\ Len(sent[2].text) - Len(ContinuationMarker) <= ChunkSize
  /\ \A i \in 3..Len(sent) : Len(sent[i].text) <= ChunkSize

\* C5 as stated: a text of 10000 bytes answered with 9000 bytes gives exactly three
\* sends: acknowledgment, chunk 1 with the marker, chunk 2.
C5_AsStated ==
  (AdmittedWithLongReply /\ Len(lastMsg[1].Text) = LongPromptLen) =>
    (Len(sent) = 3 /\ AckThenChunks)

\* the bytes of the chunks sent (the marker, which follows the first chunk when
\* there are several, not counted)
RECURSIVE ChunkBytes(_)
ChunkBytes(i) ==
  IF i > Len(sent) THEN 0
  ELSE Len(sent[i].text)
         - (IF i = 2 /\ Len(sent) > 2 THEN Len(ContinuationMarker) ELSE 0)
         + ChunkBytes(i + 1)

\* the acknowledgment, then one chunk, a beginning of the answer of at most 4000
\* bytes sent as it is
AckThenOneChunk ==
  /\ sent[1].text = AckText
  /\ Len(sent) = 2
  /\ Len(sent[2].text) <= ChunkSize
  /\ sent[2].text = SubSeq(reply[1].response, 1, Len(sent[2].text))

\* C5 amended: under the default configuration a text longer than 4096 bytes
\* (10000) gets exactly one send, the too-long reply, and no backend call; a text
\* of at most 4096 bytes answered with 9000 bytes gets one backend call and the
\* acknowledgment followed by one send per chunk, each chunk of at most 4000
\* bytes, two to four sends in all; the first chunk is followed by the
\* continuation marker exactly if there is more than one chunk. An answer without
\* space or newline gives four sends; three occur only if at least 1000 blanks
\* are dropped at the cuts, and two (one chunk, no marker) only if at least 5000.
C5_DefaultLongReply ==
  AdmittedWithLongReply =>
    IF Len(lastMsg[1].Text) > DefaultMaxPromptLen
    THEN /\ Len(sent) = 1
         /\ sent[1].text = TooLongText(DefaultMaxPromptLen)
         /\ prompts = <<>>
    ELSE /\ Len(sent) \in 2..4
         /\ IF Len(sent) = 2 THEN AckThenOneChunk ELSE AckThenChunks
         /\ prompts = <<lastMsg[1].Text>>
         /\ (\A j \in DOMAIN reply[1].response : ~IsBlank(reply[1].response[j]))
              => (Len(sent) = 4 /\ ChunkBytes(2) = LongReplyLen)
         /\ Len(sent) = 3 => ChunkBytes(2) <= 2 * ChunkSize
         /\ Len(sent) = 2 => ChunkBytes(2) <= ChunkSize

\* C5 witness: a short text answered with 9000 bytes of which the last 5000 are
\* blanks: the acknowledgment and one chunk
C5_Witness ==
  /\ AdmittedWithLongReply
  /\ lastMsg[1].Text = Hi
  /\ Len(sent) = 2
  /\ Len(sent[2].text) = ChunkSize

\* the freeform messages noted for identity a before its k-th that the limiter
\* admitted later than u
AdmittedBefore(a, k, u) ==
  {j \in 1..(k - 1) : credited[a][j].ok /\ credited[a][j].t > u}

\* C14: the limiter counts per sender identity: a freeform message of identity a
\* is admitted exactly if fewer than maxRequests of a's own earlier freeform
\* messages were admitted within the window before it, whatever other identities
\* sent and whichever chats the messages went to.
C14_PerSender ==
  \A a \in IDs : \A k \in 1..Len(credited[a]) :
     credited[a][k].ok <=>
       Cardinality(AdmittedBefore(a, k, credited[a][k].t - rateWindow)) < maxRequests

\* C14: user 6 wrote to the group chat and was admitted; then the first freeform
\* message user 5 ever sent, to the same chat, was rejected
C14_CrossSender ==
  /\ maxRequests = 1
  /\ Len(credited[6]) = 1 /\ credited[6][1].ok /\ credited[6][1].chat = 7
  /\ Len(credited[5]) = 1 /\ ~credited[5][1].ok /\ credited[5][1].chat = 7
  /\ sent # <<>> /\ sent[1].text = RateLimitedText /\ sent[1].chat = 7

\* the message of the most recent HandleMessage call is one for which
\* handleTextMessage ran: it passed the access guard and is a text other than
\* the two commands
Freeform ==
  /\ lastMsg # <<>>
  /\ allowed = <<TRUE>>
  /\ lastMsg[1].Text # <<>>
  /\ lastMsg[1].Text \notin {StartCommand, HelpCommand}

\* the entries of a list of the limiter that counted when the most recent
\* HandleMessage call began
Live(list) == Pruned(list, entry.now - rateWindow)

\* did the limiter, as the most recent HandleMessage call found it, admit a call
\* for key id?
WouldAdmit(id) == Len(Live(entry.rateLimiter[id])) < maxRequests

\* the texts of the sends of the most recent HandleMessage call, in order
SentTexts == [i \in 1..Len(sent) |-> sent[i].text]

\* C19: a HandleMessage call asks the backend only for a message that passed the
\* access guard, that the rate limiter admitted and whose text is no longer than
\* maxPromptLen; a freeform message the limiter rejects, and an admitted one whose
\* text is longer than maxPromptLen, each get exactly one send, the fixed
\* rejection reply, and neither the acknowledgment nor a backend call.
C19_BackendOnlyIfAdmitted ==
  (lastMsg # <<>> /\ lastMsg[1].Chat # <<>>) =>
    LET m     == lastMsg[1]
        admit == WouldAdmit(m.Chat[1].ID)
    IN /\ (prompts # <<>> \/ \E k \in DOMAIN sent : sent[k].text = AckText) =>
            (Freeform /\ admit /\ Len(m.Text) <= maxPromptLen)
       /\ prompts \in {<<>>, <<m.Text>>}
       /\ (Freeform /\ ~admit) =>
            (/\ SentTexts = IF todo = <<>> THEN <<RateLimitedText>> ELSE <<>>
             /\ \A k \in DOMAIN sent : sent[k].chat = m.Chat[1].ID)
       /\ (Freeform /\ admit /\ Len(m.Text) > maxPromptLen) =>
            (/\ SentTexts = IF todo = <<>> THEN <<TooLongText(maxPromptLen)>> ELSE <<>>
             /\ \A k \in DOMAIN sent : sent[k].chat = m.Chat[1].ID)
       /\ (Freeform /\ admit /\ Len(m.Text) <= maxPromptLen /\ todo = <<>>) =>
            (prompts = <<m.Text>> /\ sent[1].text = AckText)

\* C19 witness: capacity 1 and chat 5 has used it; the too-long text of user 5
\* got the rate-limited reply alone, and nothing was asked of the backend
C19_Witness ==
  /\ todo = <<>>
  /\ lastMsg # <<>>
  /\ lastMsg[1].Chat = Chat(5)
  /\ Len(lastMsg[1].Text) > maxPromptLen
  /\ allowed = <<TRUE>>
  /\ Len(sent) = 1 /\ sent[1].text = RateLimitedText
  /\ prompts = <<>>
  /\ rateLimiter[5] # <<>>

\* C20: when the backend was asked and answered, the sends are the
\* acknowledgment and then SplitMessage(response, 4000) part by part, in order,
\* one send each and all to the chat of the message, all of them once the call is
\* through; the first part is followed by the continuation marker exactly if
\* there is more than one part; a part whose send failed is logged and the later
\* parts are sent all the same.
C20_AckThenEveryChunk ==
  (prompts # <<>> /\ reply[1].ok) =>
    LET parts == SplitMessage(reply[1].response, ChunkSize)
    IN /\ Len(sent) \in 1..(1 + Len(parts))
       /\ todo = <<>> => Len(sent) = 1 + Len(parts)
       /\ sent[1].text = AckText
       /\ \A i \in 1..(Len(sent) - 1) :
             sent[i + 1].text = IF i = 1 /\ Len(parts) > 1
                                THEN parts[1] \o ContinuationMarker
                                ELSE parts[i]
       /\ \A k \in 1..Len(sent) : sent[k].chat = lastMsg[1].Chat[1].ID
       /\ Len(logs) = Cardinality({k \in 2..Len(sent) : ~sent[k].ok})

\* C20 witness: an answer in three parts; the send of the first part failed and
\* the two later parts were sent
C20_Witness ==
  /\ todo = <<>>
  /\ prompts # <<>>
  /\ reply[1].ok
  /\ Len(sent) = 4
  /\ ~sent[2].ok /\ EndsWith(sent[2].text, ContinuationMarker)
  /\ sent[3].ok /\ sent[4].ok
  /\ Len(logs) = 1

(***************************************************************************)
(* Claims about SplitMessage (SpecSplit)                                   *)
(***************************************************************************)
\* the dispatcher's SplitMessage and the statement-by-statement run agree
SplitAgrees == smPc = "done" => smParts = SplitMessage(smText, smMaxLen)

\* the k-th cut was a hard cut: neither search met its character
HardCut(k) == ~smCuts[k].nlFound /\ ~smCuts[k].spFound

\* C6: for maxLen > 0 every chunk SplitMessage has produced has length <= maxLen,
\* and a chunk produced by a hard cut has length exactly maxLen.
C6_ChunksWithinLimit ==
  smMaxLen > 0 =>
    /\ \A i \in DOMAIN smParts : Len(smParts[i]) <= smMaxLen
    /\ \A k \in DOMAIN smCuts : HardCut(k) => Len(smParts[k]) = smMaxLen

\* C6 witness: a finished run with a hard cut and with a shorter chunk cut at a
\* space or newline
C6_Witness ==
  /\ smPc = "done"
  /\ smMaxLen > 0
  /\ \E k \in DOMAIN smCuts : HardCut(k)
  /\ \E k \in DOMAIN smCuts : ~HardCut(k) /\ Len(smParts[k]) < smMaxLen

\* parts[i..] are found in text from position pos+1 on, in order, each preceded
\* (except the first of all) by a possibly empty run of blanks, and only blanks
\* follow the last one
RECURSIVE CoversFrom(_, _, _, _)
CoversFrom(text, pos, parts, i) ==
  IF i > Len(parts)
  THEN \A j \in (pos + 1)..Len(text) : IsBlank(text[j])
  ELSE \E g \in 0..(IF i = 1 THEN 0 ELSE Len(text) - pos) :
         /\ \A j \in (pos + 1)..(pos + g) : IsBlank(text[j])
         /\ pos + g + Len(parts[i]) <= Len(text)
         /\ SubSeq(text, pos + g + 1, pos + g + Len(parts[i])) = parts[i]
         /\ CoversFrom(text, pos + g + Len(parts[i]), parts, i + 1)

\* parts[i..] with the run skipped after each cut put back behind its chunk
RECURSIVE Reinserted(_, _, _)
Reinserted(parts, cuts, i) ==
  IF i > Len(parts) THEN <<>>
  ELSE parts[i] \o (IF i <= Len(cuts) THEN cuts[i].skipped ELSE <<>>)
         \o Reinserted(parts, cuts, i + 1)

\* C7: for maxLen > 0 the chunks are consecutive, in-order, non-overlapping
\* substrings of text; what lies between them (and after the last) is only runs of
\* spaces/newlines that directly follow a cut; putting the skipped runs back
\* between the chunks gives the original text.
C7_ChunksReassemble ==
  (smPc = "done" /\ smMaxLen > 0) =>
    /\ CoversFrom(smText, 0, smParts, 1)
    /\ smCuts = <<>> => smParts = <<smText>>
    /\ \A k \in DOMAIN smCuts : \A j \in DOMAIN smCuts[k].skipped : IsBlank(smCuts[k].skipped[j])
    /\ Len(smCuts) <= Len(smParts)
    /\ Reinserted(smParts, smCuts, 1) = smText

\* C7 witness: a finished run with two chunks and a non-empty skipped run
C7_Witness ==
  /\ smPc = "done"
  /\ smMaxLen > 0
  /\ Len(smParts) >= 2
  /\ \E k \in DOMAIN smCuts : smCuts[k].skipped # <<>>

\* C8: a text with len(text) <= maxLen comes back as exactly one chunk, the text.
C8_ShortTextOneChunk ==
  (smPc = "done" /\ Len(smText) <= smMaxLen) => smParts = <<smText>>

\* C8 witness: a finished run on a non-empty text no longer than maxLen
C8_Witness ==
  /\ smPc = "done"
  /\ smText # <<>>
  /\ Len(smText) <= smMaxLen

\* C9: SplitMessage returns for every text and every maxLen; a maxLen <= 0 has
\* become 4000 when the cutting loop runs; every iteration of the loop strictly
\* shortens current.
C9_Terminates ==
  /\ <>(smPc = "done")
  /\ [](smPc = "loop" => /\ smLimit > 0
                          /\ smMaxLen <= 0 => smLimit = DefaultMaxLen)
  /\ [][SplitIterate => Len(smCurrent') < Len(smCurrent)]_vars

\* C9 witness: a finished run in which the loop cut a text under maxLen <= 0
C9_Witness ==
  /\ smPc = "done"
  /\ smMaxLen <= 0
  /\ smCuts # <<>>

(***************************************************************************)
(* The order of the three cutting rules                                    *)
(***************************************************************************)
\* the number of bytes kept by a cut after the last ch among the last `window`
\* positions up to maxLen of current; 0 when ch does not occur there
LastIn(current, ch, maxLen, window) ==
  LET met == {i \in 1..maxLen : i > maxLen - window /\ current[i] = ch}
  IN IF met = {} THEN 0 ELSE CHOOSE j \in met : \A k \in met : k <= j

\* a step of the function that cuts a part off current
Cuts == smPc = "loop" /\ Len(smCuts') = Len(smCuts) + 1

\* C21: in each cutting step, if a newline occurs among the last 100 positions up
\* to maxLen of the remaining text the cut is made at the last such newline; the
\* last space among the last 50 positions is used only when no such newline
\* exists, and the cut at maxLen only when neither exists.
C21_NewlineFirst ==
  [][Cuts =>
       LET nl  == LastIn(smCurrent, NL, smLimit, NewlineWindow)
           sp  == LastIn(smCurrent, SP, smLimit, SpaceWindow)
           cut == Len(smParts'[Len(smParts')])
       IN cut = IF nl > 0 THEN nl ELSE IF sp > 0 THEN sp ELSE smLimit]_vars

\* the function has returned the parts of a text whose byte at maxLen is a newline
\* and whose byte before it is a space: the first part ends at the space
C21_NewlineAtLimit ==
  /\ smPc = "done"
  /\ smMaxLen = 3
  /\ smText = <<97, SP, NL, 97, 97>>
  /\ smParts = <<  <<97, SP>>, <<97, 97>>  >>
  /\ smCuts[1].nlFound /\ smCuts[1].splitPos = 2

(***************************************************************************)
(* Commands                                                                *)
(***************************************************************************)
\* what the state shows when handleTextMessage(chat, text) has run to its end
\* with the backend answer reply: the limiter's gate, the length gate, then the
\* acknowledgment, the backend call with text as the prompt, and the answer or the
\* failure reply
FreeformOutcome(chat, text) ==
  LET admit == WouldAdmit(chat)
      live  == Live(entry.rateLimiter[chat])
      parts == SplitMessage(reply[1].response, ChunkSize)
  IN /\ \A i \in 1..Len(sent) : sent[i].chat = chat
     /\ rateLimiter = [entry.rateLimiter EXCEPT
                         ![chat] = IF admit THEN Append(live, entry.now) ELSE live]
     /\ IF ~admit
        THEN SentTexts = <<RateLimitedText>> /\ prompts = <<>>
        ELSE IF Len(text) > maxPromptLen
        THEN SentTexts = <<TooLongText(maxPromptLen)>> /\ prompts = <<>>
        ELSE /\ prompts = <<text>>
             /\ SentTexts = IF reply[1].ok
                            THEN <<AckText>> \o [i \in 1..Len(parts) |-> PartText(parts, i)]
                            ELSE <<AckText, GenericFailureText>>

\* C22: for a message past the access guard whose text begins with '/': /start
\* and /help each produce exactly one send, the fixed text of the command, and no
\* backend call; for any other command text the call, once through, has the
\* outcome of a freeform message whose prompt is the whole text, '/' included, the
\* same outcome that a text without '/' has.
C22_Commands ==
  (lastMsg # <<>> /\ allowed = <<TRUE>> /\ lastMsg[1].Text # <<>>) =>
    LET m    == lastMsg[1]
        chat == m.Chat[1].ID
        info == IF m.Text = StartCommand THEN StartText ELSE HelpText
    IN IF m.Text \in {StartCommand, HelpCommand}
       THEN /\ SentTexts = IF todo = <<>> THEN <<info>> ELSE <<>>
            /\ \A k \in DOMAIN sent : sent[k].chat = chat
            /\ prompts = <<>>
            /\ rateLimiter = entry.rateLimiter
       ELSE todo = <<>> => FreeformOutcome(chat, m.Text)

\* C22 witness: /foo of an allowed sender was given to the backend whole and the
\* answer was sent after the acknowledgment
C22_Witness ==
  /\ todo = <<>>
  /\ lastMsg # <<>>
  /\ lastMsg[1].Text = FooCommand
  /\ allowed = <<TRUE>>
  /\ prompts = <<FooCommand>>
  /\ Len(sent) = 2 /\ sent[1].text = AckText /\ sent[2].text = ShortReply

(***************************************************************************)
(* The limiter and the length check                                        *)
(***************************************************************************)
\* C24: handleTextMessage asks the limiter before it looks at the length of the
\* text.  A freeform message of an allowed sender whose text is longer than
\* maxPromptLen is answered with the rate-limited reply, not the too-long reply,
\* if the limiter rejects it; if the limiter admits it, it gets the too-long
\* reply and the time of the call is appended to the list of the limiter's key
\* (the chat id, which in a private chat is the sender's id), so that one more
\* entry counts against maxRequests.
C24_LimiterBeforeLength ==
  (Freeform /\ Len(lastMsg[1].Text) > maxPromptLen) =>
    LET chat == lastMsg[1].Chat[1].ID
        live == Live(entry.rateLimiter[chat])
    IN /\ prompts = <<>>
       /\ IF Len(live) < maxRequests
          THEN /\ todo = <<>> => SentTexts = <<TooLongText(maxPromptLen)>>
               /\ rateLimiter[chat] = Append(live, entry.now)
               /\ Len(Live(rateLimiter[chat])) = Len(live) + 1
          ELSE /\ todo = <<>> => SentTexts = <<RateLimitedText>>
               /\ rateLimiter[chat] = live

\* C24 witness: user 5's too-long text in the private chat got the too-long reply
\* and has used up the capacity of key 5
C24_Witness ==
  /\ todo = <<>>
  /\ lastMsg # <<>>
  /\ lastMsg[1].From = User(5) /\ lastMsg[1].Chat = Chat(5)
  /\ Len(lastMsg[1].Text) > maxPromptLen
  /\ allowed = <<TRUE>>
  /\ Len(sent) = 1 /\ sent[1].text = TooLongText(maxPromptLen)
  /\ rateLimiter[5] = <<entry.now>>
  /\ Len(Live(rateLimiter[5])) = maxRequests

(***************************************************************************)
(* Claims about the intake loop on conforming batches (SpecEvents)         *)
(***************************************************************************)
\* C23: as long as every batch has held only updates with update_id >= the
\* offset of its request, no update_id of the batch in hand is the update_id of
\* an update of an earlier batch; and the range loop hands the message of every
\* update of a batch to HandleMessage whatever its update_id, also when the
\* watermark has already passed it.
C23_NoRedispatch ==
  /\ [](conforms => \A i \in 1..Len(updates) : updates[i].UpdateID \notin earlier)
  /\ [][(pc = "dispatch" /\ pc' # "dispatch" /\ updates[idx].Message # <<>>) =>
          (pc' = "handling" /\ lastMsg' = updates[idx].Message)]_vars

\* C23 witness: after the batch with update 1, the batch [3, 2] has been ranged
\* over: the message of update 2 was handed on although the watermark was 3
C23_Witness ==
  /\ pc = "select"
  /\ conforms
  /\ earlier = {1}
  /\ IDsOf(updates) = <<3, 2>>
  /\ updates[2].Message # <<>>
  /\ Len(trail) > 0 /\ trail[Len(trail)].index = 2
  /\ lastMsg = updates[2].Message
  /\ LastUpdate = 3

\* the update the range loop is at has no message, or one that does not get to
\* handleTextMessage: of a sender the access guard denies, /start, /help or an
\* empty text
NotForLimiter ==
  LET m == updates[idx].Message
  IN \/ m = <<>>
     \/ ~isUserAllowed(m[1])
     \/ m[1].Text \in {StartCommand, HelpCommand}
     \/ m[1].Text = <<>>

\* C25: the loop body for an update without message, and HandleMessage for a
\* message of a sender the access guard denies, for /start, for /help and for an
\* empty text, leave the limiter's list of every key as it was, from the call to
\* its return.
C25_LimiterUntouched ==
  /\ [][(pc = "dispatch" /\ NotForLimiter) => rateLimiter' = rateLimiter]_vars
  /\ [][(pc = "handling") => (rateLimiter' = rateLimiter)]_vars
  /\ [](pc = "handling" /\ NotForLimiter => rateLimiter = entry.rateLimiter)

\* C25 witness: key 5 holds an entry, and then /start of user 5 and an update
\* without message have gone through the loop body
C25_Witness ==
  /\ pc = "select"
  /\ rateLimiter[5] # <<>>
  /\ rateLimiter = entry.rateLimiter
  /\ earlier # {}
  /\ Len(updates) = 2
  /\ updates[1].Message = <<Message(User(5), Chat(5), StartCommand)>>
  /\ updates[2].Message = <<>>
  /\ lastMsg = updates[1].Message
  /\ sent # <<>> /\ sent[1].text = StartText

====
